---- MODULE Spec2Model ----
(***************************************************************************)
(* Model of the DocumentScanner export pipeline                            *)
(* (src/services/exportService.js): the four renderers as operators over   *)
(* JavaScript values, and exportDocument as a step machine whose steps are *)
(* the suspension points (awaits) of the function.                         *)
(*                                                                         *)
(* Strings are sequences of one-character strings, so that escaping,       *)
(* labelling and extension stripping are computed character by character.  *)
(***************************************************************************)
EXTENDS Integers, Sequences, FiniteSets, TLC

VARIABLES
    extraction,   \* the extraction handed to a renderer
    docName,      \* the docName argument of the HTML / DOCX / PDF renderers
    rendered,     \* the last renderer invoked and what it returned
    pdf,          \* buildPdfFromExtractionWeb under way: its doc, y and loops
    savedDoc,     \* exportDocument's savedDoc argument
    formatId,     \* exportDocument's formatId argument
    platform,     \* Platform.OS, window.document, jsPDF (fixed for a run)
    pc,           \* where the exportDocument call is suspended
    locals,       \* exportDocument's locals that live across an await
    effects,      \* every renderer / platform primitive invoked so far, in order
    result,       \* how the exportDocument call settled
    store,        \* the AsyncStorage item under STORAGE_KEY: the stored documents
    calls,        \* the documentService calls under way, each with its locals
    ui,           \* the screens' React state and what they have opened
    scan          \* where the scanDocumentWithAI call is, and what it tried

vars == <<extraction, docName, rendered, pdf, savedDoc, formatId, platform, pc,
          locals, effects, result, store, calls, ui, scan>>

renderVars == <<extraction, docName, rendered, pdf>>
exportVars == <<savedDoc, formatId, pc, locals, effects, result>>
appVars == <<store, calls, ui, scan>>

\* nothing stored, no service call, no screen and no scan: the state of the
\* application around a rendering or an export taken on its own
AppIdle ==
    /\ store = [json |-> FALSE, docs |-> <<>>]
    /\ calls = <<>>
    /\ ui = [at |-> "none"]
    /\ scan = [at |-> "idle"]

----------------------------------------------------------------------------
(* Bounds *)

\* the largest number of keys of a structuredData object
MaxFields == 3

\* the number of characters jsPDF's splitTextToSize puts on one line
WrapWidth == 8

----------------------------------------------------------------------------
(* Characters and strings *)

LowerLetters == <<"a","b","c","d","e","f","g","h","i","j","k","l","m",
                  "n","o","p","q","r","s","t","u","v","w","x","y","z">>
UpperLetters == <<"A","B","C","D","E","F","G","H","I","J","K","L","M",
                  "N","O","P","Q","R","S","T","U","V","W","X","Y","Z">>
Digits == <<"0","1","2","3","4","5","6","7","8","9">>

\* the regular expression class [A-Z]
IsUpper(c) == \E i \in 1..26 : UpperLetters[i] = c

IsDigit(c) == \E i \in 1..10 : Digits[i] = c

\* String.prototype.toUpperCase on one character
ToUpperChar(c) ==
    IF \E i \in 1..26 : LowerLetters[i] = c
    THEN UpperLetters[CHOOSE i \in 1..26 : LowerLetters[i] = c]
    ELSE c

ToUpperCase(s) == [i \in 1..Len(s) |-> ToUpperChar(s[i])]

\* String.prototype.repeat for a one-character string
Repeat(c, n) == [i \in 1..n |-> c]

RECURSIVE Concat(_)
\* the concatenation of a sequence of strings
Concat(ss) == IF ss = <<>> THEN <<>> ELSE Head(ss) \o Concat(Tail(ss))

RECURSIVE Join(_, _)
\* Array.prototype.join on strings already converted
Join(ss, sep) ==
    IF ss = <<>> THEN <<>>
    ELSE IF Len(ss) = 1 THEN Head(ss)
    ELSE Head(ss) \o sep \o Join(Tail(ss), sep)

RECURSIVE NatToString(_)
\* String(n) for a natural number
NatToString(n) ==
    IF n < 10 THEN <<Digits[n + 1]>>
    ELSE NatToString(n \div 10) \o <<Digits[(n % 10) + 1]>>

RECURSIVE StringToNat(_)
StringToNat(s) ==
    IF s = <<>> THEN 0
    ELSE 10 * StringToNat(SubSeq(s, 1, Len(s) - 1))
         + ((CHOOSE i \in 1..10 : Digits[i] = s[Len(s)]) - 1)

----------------------------------------------------------------------------
(* JavaScript values *)

Null == [t |-> "null"]
Undefined == [t |-> "undefined"]
Str(s) == [t |-> "string", s |-> s]
Num(n) == [t |-> "number", n |-> n]
Arr(items) == [t |-> "array", items |-> items]
\* an object: its own properties as <<key, value>> pairs in enumeration order
Obj(props) == [t |-> "object", props |-> props]

\* v == null (null or undefined)
IsNullish(v) == v.t \in {"null", "undefined"}

\* Array.isArray(v)
IsArray(v) == v.t = "array"

\* typeof v === 'object'
TypeofObject(v) == v.t \in {"null", "array", "object"}

\* ToBoolean(v)
Truthy(v) ==
    CASE v.t = "null" -> FALSE
      [] v.t = "undefined" -> FALSE
      [] v.t = "string" -> v.s # <<>>
      [] v.t = "number" -> v.n # 0
      [] OTHER -> TRUE

RECURSIVE JsonStringify(_)
\* JSON.stringify(v) for the values above (strings hold no character that
\* JSON escapes)
JsonStringify(v) ==
    CASE v.t = "null" -> <<"n","u","l","l">>
      [] v.t = "undefined" -> <<"n","u","l","l">>
      [] v.t = "string" -> <<"\"">> \o v.s \o <<"\"">>
      [] v.t = "number" -> NatToString(v.n)
      [] v.t = "array" ->
           <<"[">> \o Join([i \in 1..Len(v.items) |-> JsonStringify(v.items[i])],
                           <<",">>) \o <<"]">>
      [] OTHER ->
           <<"{">> \o Join([i \in 1..Len(v.props) |->
                               <<"\"">> \o v.props[i][1] \o <<"\"", ":">>
                               \o JsonStringify(v.props[i][2])],
                           <<",">>) \o <<"}">>

RECURSIVE JsString(_)
\* String(v)
JsString(v) ==
    CASE v.t = "null" -> <<"n","u","l","l">>
      [] v.t = "undefined" -> <<"u","n","d","e","f","i","n","e","d">>
      [] v.t = "string" -> v.s
      [] v.t = "number" -> NatToString(v.n)
      [] v.t = "array" ->
           Join([i \in 1..Len(v.items) |->
                    IF IsNullish(v.items[i]) THEN <<>> ELSE JsString(v.items[i])],
                <<",">>)
      [] OTHER -> <<"[","o","b","j","e","c","t"," ","O","b","j","e","c","t","]">>

\* the element conversion of Array.prototype.join
JoinElement(v) == IF IsNullish(v) THEN <<>> ELSE JsString(v)

----------------------------------------------------------------------------
(* Objects: property lookup and enumeration order *)

RawTextKey == <<"r","a","w","T","e","x","t">>

\* data[key]: undefined when data has no such own property
GetProp(props, key) ==
    IF \E i \in 1..Len(props) : props[i][1] = key
    THEN props[CHOOSE i \in 1..Len(props) : props[i][1] = key][2]
    ELSE Undefined

\* a canonical array index ("0", "7", "10"; not "07", not "")
IsArrayIndex(key) ==
    /\ key # <<>>
    /\ \A i \in 1..Len(key) : IsDigit(key[i])
    /\ (Len(key) = 1 \/ key[1] # "0")

RECURSIVE SortByIndex(_)
\* integer-like properties by ascending numeric value
SortByIndex(props) ==
    IF props = <<>> THEN <<>>
    ELSE LET m == CHOOSE i \in 1..Len(props) :
                     \A j \in 1..Len(props) :
                         StringToNat(props[i][1]) <= StringToNat(props[j][1])
         IN  <<props[m]>>
             \o SortByIndex([k \in 1..(Len(props) - 1) |->
                                IF k < m THEN props[k] ELSE props[k + 1]])

IsIndexEntry(e) == IsArrayIndex(e[1])
IsNameEntry(e) == ~IsArrayIndex(e[1])

\* Object.entries(data) / Object.keys(data) of an object whose properties were
\* created in the order of props: the integer-like keys first, in ascending
\* numeric order, then the other string keys in creation order
ObjectEntries(props) ==
    SortByIndex(SelectSeq(props, IsIndexEntry)) \o SelectSeq(props, IsNameEntry)

----------------------------------------------------------------------------
(* Field formatting shared by the renderers *)

RECURSIVE SpaceBeforeUpper(_)
\* key.replace(/([A-Z])/g, ' $1')
SpaceBeforeUpper(s) ==
    IF s = <<>> THEN <<>>
    ELSE (IF IsUpper(Head(s)) THEN <<" ", Head(s)>> ELSE <<Head(s)>>)
         \o SpaceBeforeUpper(Tail(s))

\* s.replace(/^./, (c) => c.toUpperCase())
UpperFirst(s) == IF s = <<>> THEN <<>> ELSE <<ToUpperChar(Head(s))>> \o Tail(s)

\* the label of a field key
LabelFor(key) == UpperFirst(SpaceBeforeUpper(key))

\* value.map((v) => (typeof v === 'object' ? JSON.stringify(v) : v))
MapElement(v) == IF TypeofObject(v) THEN Str(JsonStringify(v)) ELSE v

\* the display string of a field value
DisplayFor(value) ==
    IF IsArray(value)
    THEN Join([i \in 1..Len(value.items) |-> JoinElement(MapElement(value.items[i]))],
              <<",", " ">>)
    ELSE IF TypeofObject(value) THEN JsonStringify(value)
    ELSE JsString(value)

\* FieldFilter without its exclusion of empty arrays
FieldFilterKeepingEmptyArrays(e) ==
    /\ e[1] # RawTextKey
    /\ ~IsNullish(e[2])

\* FieldFilter without its exclusion of rawText
FieldFilterKeepingRawText(e) ==
    /\ ~IsNullish(e[2])
    /\ ~(IsArray(e[2]) /\ Len(e[2].items) = 0)

\* ([k, v]) => k !== 'rawText' && v != null && !(Array.isArray(v) && v.length === 0)
FieldFilter(e) ==
    /\ e[1] # RawTextKey
    /\ ~IsNullish(e[2])
    /\ ~(IsArray(e[2]) /\ Len(e[2].items) = 0)

RECURSIVE Reverse(_)
Reverse(q) == IF q = <<>> THEN <<>> ELSE Reverse(Tail(q)) \o <<Head(q)>>

\* DataEntries with the entries taken last to first
DataEntriesReversed(data) == Reverse(SelectSeq(ObjectEntries(data), FieldFilter))

\* dataEntries of the HTML, DOCX and PDF renderers
DataEntries(data) == SelectSeq(ObjectEntries(data), FieldFilter)

\* (k) => k !== 'rawText'
TextKeyFilter(e) == e[1] # RawTextKey

\* dataKeys of the text renderer (with each key's value)
TextDataKeys(data) == SelectSeq(ObjectEntries(data), TextKeyFilter)

\* x || d
OrElse(x, d) == IF Truthy(x) THEN x ELSE d

\* a default parameter value (docName = 'Document')
DefaultDocName(name) ==
    IF name.t = "undefined" THEN Str(<<"D","o","c","u","m","e","n","t">>) ELSE name

\* getFullText(extraction): the value itself, not yet a string
getFullText(ex) ==
    LET text == OrElse(ex.extractedText, Str(<<>>))
        rawText == GetProp(ex.structuredData, RawTextKey)
    IN  IF Truthy(text) THEN text
        ELSE IF Truthy(rawText) THEN rawText
        ELSE Str(<<>>)

\* InlineFullText without the test for a missing rawText: text || String(data.rawText)
InlineFullTextUnguarded(ex) ==
    LET text == OrElse(ex.extractedText, Str(<<>>))
        rawText == GetProp(ex.structuredData, RawTextKey)
    IN  OrElse(text, Str(JsString(rawText)))

\* text || (data.rawText != null ? String(data.rawText) : '') of the HTML and
\* DOCX renderers
InlineFullText(ex) ==
    LET text == OrElse(ex.extractedText, Str(<<>>))
        rawText == GetProp(ex.structuredData, RawTextKey)
    IN  OrElse(text, IF ~IsNullish(rawText) THEN Str(JsString(rawText)) ELSE Str(<<>>))

----------------------------------------------------------------------------
(* escapeHtml *)

RECURSIVE ReplaceChar(_, _, _)
\* str.replace(/c/g, by) for a one-character pattern
ReplaceChar(s, c, by) ==
    IF s = <<>> THEN <<>>
    ELSE (IF Head(s) = c THEN by ELSE <<Head(s)>>) \o ReplaceChar(Tail(s), c, by)

AmpEntity == <<"&","a","m","p",";">>
LtEntity == <<"&","l","t",";">>
GtEntity == <<"&","g","t",";">>
QuotEntity == <<"&","q","u","o","t",";">>
AposEntity == <<"&","#","3","9",";">>

\* escapeHtml with & replaced last, after the entities were written
escapeHtmlAmpersandLast(s) ==
    ReplaceChar(
      ReplaceChar(
        ReplaceChar(
          ReplaceChar(
            ReplaceChar(s, "<", LtEntity),
            ">", GtEntity),
          "\"", QuotEntity),
        "'", AposEntity),
      "&", AmpEntity)

\* escapeHtml(s) for a string s
escapeHtml(s) ==
    ReplaceChar(
      ReplaceChar(
        ReplaceChar(
          ReplaceChar(
            ReplaceChar(s, "&", AmpEntity),
            "<", LtEntity),
          ">", GtEntity),
        "\"", QuotEntity),
      "'", AposEntity)

----------------------------------------------------------------------------
(* The renderers.  A rendering is the sequence of the template's slots in    *)
(* output order; each slot holds the characters interpolated into it, and a  *)
(* field slot also the key it was produced for.                              *)

\* extraction?.structuredData || {}: the properties in creation order (a
\* missing structuredData is the empty sequence, which is what || {} makes it)
DataOf(ex) == ex.structuredData

\* one labeled field of a rendering
FieldSlot(e, display) ==
    [kind |-> "field", key |-> e[1], label |-> LabelFor(e[1]), text |-> display]

Slot(kind, text) == [kind |-> kind, text |-> text]

\* the text renderer's loop: "if (value == null) continue"
TextValuePresent(e) == ~IsNullish(e[2])

\* buildTextFromExtraction(extraction)
buildTextFromExtraction(ex) ==
    LET type == OrElse(ex.documentType, Str(<<"o","t","h","e","r">>))
        data == DataOf(ex)
        fullText == getFullText(ex)
        summary == OrElse(ex.formattedSummary, Str(<<>>))
        dataKeys == TextDataKeys(data)
        emitted == SelectSeq(dataKeys, TextValuePresent)
    IN  <<Slot("header", ToUpperCase(JsString(type)))>>
        \o (IF Truthy(summary) THEN <<Slot("summary", JsString(summary))>> ELSE <<>>)
        \o (IF Len(dataKeys) > 0
            THEN [i \in 1..Len(emitted) |-> FieldSlot(emitted[i], DisplayFor(emitted[i][2]))]
                 \o <<Slot("blank", <<>>)>>
            ELSE <<>>)
        \o (IF Truthy(fullText) THEN <<Slot("fulltext", JsString(fullText))>> ELSE <<>>)

\* the characters one slot of the text export stands for: the template
\* literals appended to out
TextOfSlot(sl) ==
    CASE sl.kind = "header" ->
           sl.text \o <<" ","D","O","C","U","M","E","N","T","\n">>
               \o Repeat("=", 40) \o <<"\n","\n">>
      [] sl.kind = "summary" -> sl.text \o <<"\n","\n">>
      [] sl.kind = "field" -> sl.label \o <<":"," ">> \o sl.text \o <<"\n">>
      [] sl.kind = "blank" -> <<"\n">>
      [] OTHER -> <<"F","U","L","L"," ","T","E","X","T",":","\n">> \o sl.text \o <<"\n">>

\* the string buildTextFromExtraction returns
TextString(slots) == Concat([i \in 1..Len(slots) |-> TextOfSlot(slots[i])])

\* buildHtmlFromExtraction(extraction, docName), in the order of the returned
\* document: the head's title, then the body
buildHtmlFromExtraction(ex, name) ==
    LET data == DataOf(ex)
        summary == OrElse(ex.formattedSummary, Str(<<>>))
        dataEntries == DataEntries(data)
        fullText == InlineFullText(ex)
        scanned == Str(<<"S","c","a","n","n","e","d"," ",
                         "d","o","c","u","m","e","n","t">>)
    IN  <<Slot("title", escapeHtml(JsString(DefaultDocName(name)))),
          Slot("h1", JsString(DefaultDocName(name))),
          Slot("p", JsString(OrElse(summary, scanned))),
          Slot("hr", <<>>)>>
        \o (IF Len(dataEntries) > 0
            THEN <<Slot("table_open", <<>>)>>
                 \o [i \in 1..Len(dataEntries) |->
                        FieldSlot(dataEntries[i], escapeHtml(DisplayFor(dataEntries[i][2])))]
                 \o <<Slot("table_close", <<>>)>>
            ELSE <<>>)
        \o (IF Truthy(fullText)
            THEN <<Slot("h2", <<"F","u","l","l"," ","t","e","x","t">>),
                   Slot("fulltext", escapeHtml(JsString(fullText)))>>
            ELSE <<>>)

\* buildDocxFromExtraction(extraction, docName): the children of the section
buildDocxFromExtraction(ex, name) ==
    LET data == DataOf(ex)
        summary == OrElse(ex.formattedSummary, Str(<<>>))
        dataEntries == DataEntries(data)
        rows == [i \in 1..Len(dataEntries) |->
                    FieldSlot(dataEntries[i], DisplayFor(dataEntries[i][2]))]
        fullText == InlineFullText(ex)
    IN  <<Slot("title", JsString(DefaultDocName(name)))>>
        \o (IF Truthy(summary) THEN <<Slot("summary", JsString(summary))>> ELSE <<>>)
        \o (IF Len(dataEntries) > 0 /\ Len(rows) > 0
            THEN <<[kind |-> "table", rows |-> rows], Slot("spacer", <<>>)>>
            ELSE <<>>)
        \o (IF Truthy(fullText)
            THEN <<Slot("heading", <<"F","u","l","l"," ","t","e","x","t">>),
                   Slot("fulltext", JsString(fullText))>>
            ELSE <<>>)

----------------------------------------------------------------------------
(* The PDF layout (jsPDF): a cursor y, a page number, and the text drawn *)

PdfTop == 20
PdfTitleAdvance == 12
PdfLineHeight == 6
PdfSummaryGap == 6
PdfHeadingAdvance == 8
PdfSectionGap == 8
PdfFieldGap == 4
PdfFieldLimit == 270
PdfFullTextHeadingLimit == 240
PdfLineLimit == 275

RECURSIVE splitTextToSize(_)
\* doc.splitTextToSize(text, maxWidth): the text cut into lines of at most
\* WrapWidth characters (the texts hold no line break)
splitTextToSize(s) ==
    IF Len(s) <= WrapWidth THEN (IF s = <<>> THEN <<>> ELSE <<s>>)
    ELSE <<SubSeq(s, 1, WrapWidth)>> \o splitTextToSize(SubSeq(s, WrapWidth + 1, Len(s)))

\* doc.text(...) at the cursor
Draw(st, slot) ==
    [st EXCEPT !.draws = Append(@, slot @@ [page |-> st.page, y |-> st.y])]

\* doc.addPage(); y = 20
AddPage(st) == [st EXCEPT !.page = @ + 1, !.y = PdfTop]

Advance(st, dy) == [st EXCEPT !.y = @ + dy]

\* FieldOverflows starting a page also for a field that ends on the limit
FieldOverflowsAtLimit(y, n) == y + n * PdfLineHeight >= PdfFieldLimit

\* FieldOverflows looking at the cursor only, not at the lines to come
FieldOverflowsIgnoringLines(y, n) == y > PdfFieldLimit

\* "if (y + lines.length * 6 > 270)" before a field is drawn
FieldOverflows(y, n) == y + n * PdfLineHeight > PdfFieldLimit

\* one iteration of "for (const [key, value] of dataEntries)"
PdfFieldStep(e, st) ==
    LET display == DisplayFor(e[2])
        lines == splitTextToSize(LabelFor(e[1]) \o <<":", " ">> \o display)
        st1 == IF FieldOverflows(st.y, Len(lines)) THEN AddPage(st) ELSE st
        st2 == Draw(st1, FieldSlot(e, display) @@ [lines |-> lines])
    IN  Advance(st2, Len(lines) * PdfLineHeight + PdfFieldGap)

RECURSIVE PdfFieldLoop(_, _)
\* for (const [key, value] of dataEntries) { ... }
PdfFieldLoop(entries, st) ==
    IF entries = <<>> THEN st
    ELSE PdfFieldLoop(Tail(entries), PdfFieldStep(Head(entries), st))

\* PdfTextStep drawing at the cursor wherever it is
PdfTextStepWithoutBreak(line, st) ==
    Advance(Draw(st, Slot("fulltext", line)), PdfLineHeight)

\* one iteration of "for (let i = 0; i < textLines.length; i++)"
PdfTextStep(line, st) ==
    LET st1 == IF st.y > PdfLineLimit THEN AddPage(st) ELSE st
    IN  Advance(Draw(st1, Slot("fulltext", line)), PdfLineHeight)

RECURSIVE PdfTextLoop(_, _)
\* for (let i = 0; i < textLines.length; i++) { ... }
PdfTextLoop(lines, st) ==
    IF lines = <<>> THEN st
    ELSE PdfTextLoop(Tail(lines), PdfTextStep(Head(lines), st))

\* new jsPDF(...); the title and, when there is one, the summary
PdfTitleAndSummary(ex, name) ==
    LET summary == OrElse(ex.formattedSummary, Str(<<>>))
        s0 == [page |-> 1, y |-> PdfTop, draws |-> <<>>]
        s1 == Advance(Draw(s0, Slot("title", JsString(DefaultDocName(name)))),
                      PdfTitleAdvance)
        summaryLines == splitTextToSize(JsString(summary))
    IN  IF Truthy(summary)
        THEN Advance(Draw(s1, Slot("summary", JsString(summary))
                              @@ [lines |-> summaryLines]),
                     Len(summaryLines) * PdfLineHeight + PdfSummaryGap)
        ELSE s1

\* doc.text('Details', margin, y); y += 8
PdfDetailsHeading(st) ==
    Advance(Draw(st, Slot("details", <<"D","e","t","a","i","l","s">>)),
            PdfHeadingAdvance)

\* if (y > 240) { doc.addPage(); y = 20 }; doc.text('Full text', margin, y); y += 8
PdfFullTextHeading(st) ==
    LET st1 == IF st.y > PdfFullTextHeadingLimit THEN AddPage(st) ELSE st
    IN  Advance(Draw(st1, Slot("heading", <<"F","u","l","l"," ","t","e","x","t">>)),
                PdfHeadingAdvance)

\* buildPdfFromExtractionWeb(extraction, docName): the layout it leaves in doc
PdfLayout(ex, name) ==
    LET data == DataOf(ex)
        fullText == getFullText(ex)
        s2 == PdfTitleAndSummary(ex, name)
        dataEntries == DataEntries(data)
        s3 == IF Len(dataEntries) > 0
              THEN Advance(PdfFieldLoop(dataEntries, PdfDetailsHeading(s2)),
                           PdfSectionGap)
              ELSE s2
    IN  IF Truthy(fullText)
        THEN PdfTextLoop(splitTextToSize(JsString(fullText)), PdfFullTextHeading(s3))
        ELSE s3

\* the text drawn by buildPdfFromExtractionWeb, in drawing order
buildPdfFromExtractionWeb(ex, name) == PdfLayout(ex, name).draws

----------------------------------------------------------------------------
(* Rendering: the inputs a renderer can be handed, and the four renderers *)

VendorNameKey == <<"v","e","n","d","o","r","N","a","m","e">>
ItemsKey == <<"i","t","e","m","s">>
SevenKey == <<"7">>

FieldKeys == {RawTextKey, VendorNameKey, ItemsKey, SevenKey}

\* the values each key takes
ValuesOf(key) ==
    CASE key = RawTextKey ->
           {Null, Str(<<>>), Str(<<"r","<","w">>), Num(0), Arr(<<>>)}
      [] key = VendorNameKey ->
           {Null, Str(<<"&","<",">","\"","'">>)}
      [] key = ItemsKey ->
           {Undefined, Arr(<<>>),
            Arr(<<Str(<<"a">>), Obj(<< <<<<"n">>, Num(2)>> >>)>>)}
      [] OTHER ->
           {Num(7), Obj(<< <<<<"k">>, Str(<<"<">>)>> >>)}

\* the structuredData objects: up to MaxFields distinct keys, created in any
\* order
StructuredDatas ==
    UNION {
      {d \in [1..n -> UNION {{<<k, v>> : v \in ValuesOf(k)} : k \in FieldKeys}] :
          \A i, j \in 1..n : i # j => d[i][1] # d[j][1]}
      : n \in 0..MaxFields }

ExtractedTexts == {Str(<<>>), Str(<<"x","&","y">>)}
Summaries == {Str(<<>>), Str(<<"<","i",">">>)}
DocumentTypes == {Undefined, Str(<<"r","e","c","e","i","p","t">>)}
DocNames == {Undefined, Str(<<"a","<","b",".","c">>)}

Extractions ==
    [documentType : DocumentTypes, extractedText : ExtractedTexts,
     structuredData : StructuredDatas, formattedSummary : Summaries]

Renderers == {"txt", "html", "docx", "pdf"}

\* what renderer r returns for an extraction and a document name
Render(r, ex, name) ==
    CASE r = "txt" -> buildTextFromExtraction(ex)
      [] r = "html" -> buildHtmlFromExtraction(ex, name)
      [] r = "docx" -> buildDocxFromExtraction(ex, name)
      [] OTHER -> buildPdfFromExtractionWeb(ex, name)

NotRendered == [renderer |-> "none", out |-> <<>>]

\* no buildPdfFromExtractionWeb call under way
PdfIdle ==
    [at |-> "idle", st |-> [page |-> 1, y |-> PdfTop, draws |-> <<>>],
     entries |-> <<>>, textLines |-> <<>>]

\* no exportDocument call
ExportIdle ==
    /\ savedDoc = Null
    /\ formatId = "none"
    /\ pc = "idle"
    /\ locals = [filename |-> <<>>]
    /\ effects = <<>>
    /\ result = [status |-> "none"]

\* the web platform, where jspdf was loaded (buildPdfFromExtractionWeb throws
\* without it)
WebPlatform == [os |-> "web", window |-> TRUE, jsPDF |-> TRUE]

InitRender ==
    /\ platform = WebPlatform
    /\ extraction \in Extractions
    /\ docName \in DocNames
    /\ rendered = NotRendered
    /\ pdf = PdfIdle
    /\ ExportIdle
    /\ AppIdle

RenderText ==
    /\ rendered = NotRendered
    /\ rendered' = [renderer |-> "txt", out |-> buildTextFromExtraction(extraction),
                    str |-> TextString(buildTextFromExtraction(extraction))]
    /\ UNCHANGED <<extraction, docName, pdf, platform, appVars, exportVars>>

RenderHtml ==
    /\ rendered = NotRendered
    /\ rendered' = [renderer |-> "html",
                    out |-> buildHtmlFromExtraction(extraction, docName)]
    /\ UNCHANGED <<extraction, docName, pdf, platform, appVars, exportVars>>

RenderDocx ==
    /\ rendered = NotRendered
    /\ rendered' = [renderer |-> "docx",
                    out |-> buildDocxFromExtraction(extraction, docName)]
    /\ UNCHANGED <<extraction, docName, pdf, platform, appVars, exportVars>>

RenderPdf ==
    /\ platform.jsPDF
    /\ rendered = NotRendered
    /\ rendered' = [renderer |-> "pdf",
                    out |-> buildPdfFromExtractionWeb(extraction, docName)]
    /\ UNCHANGED <<extraction, docName, pdf, platform, appVars, exportVars>>

NextRender == RenderText \/ RenderHtml \/ RenderDocx \/ RenderPdf

SpecRender == InitRender /\ [][NextRender]_vars

----------------------------------------------------------------------------
(* Rendering one field under each key of a family of keys *)

\* the longest key of the family
MaxKeyLen == 4

IssueDateKey == <<"i","s","s","u","e","D","a","t","e">>
MrzLine1Key == <<"m","r","z","L","i","n","e","1">>

\* the keys: every string of a lower-case letter, an upper-case letter and a
\* digit up to MaxKeyLen characters, and two keys of the passport schema
LabelKeys ==
    UNION {[1..n -> {"d", "L", "1"}] : n \in 1..MaxKeyLen}
        \cup {IssueDateKey, MrzLine1Key}

InitLabel ==
    /\ platform = WebPlatform
    /\ extraction \in
          {[documentType |-> Undefined, extractedText |-> Str(<<>>),
            structuredData |-> << <<k, Str(<<"v">>)>> >>,
            formattedSummary |-> Str(<<>>)] : k \in LabelKeys}
    /\ docName = Undefined
    /\ rendered = NotRendered
    /\ pdf = PdfIdle
    /\ ExportIdle
    /\ AppIdle

SpecLabel == InitLabel /\ [][NextRender]_vars

----------------------------------------------------------------------------
(* The PDF layout, one step per drawing loop iteration, on extractions whose *)
(* fields and full text wrap to many lines                                  *)

\* the largest number of fields of an extraction laid out step by step
MaxPdfFields == 3

\* the i-th one-letter key
PdfKey(i) == <<LowerLetters[i]>>

\* the numbers of lines a field wraps to
PdfLineCounts == {1, 20, 21, 50}

\* the numbers of lines the full text wraps to
PdfTextLineCounts == {0, 2, 45}

\* a value whose field ("<Label>: <value>", the label one letter) wraps to
\* exactly n lines
PdfValueOfLines(n) == Str(Repeat("x", n * WrapWidth - 3))

\* a text of n lines, each line different from the others: line j holds j
PdfTextOfLines(n) ==
    Str(Concat([j \in 1..n |->
                   NatToString(j) \o Repeat(".", WrapWidth - Len(NatToString(j)))]))

\* structuredData objects of up to MaxPdfFields fields
PdfStructuredDatas ==
    UNION {
      {[i \in 1..n |-> <<PdfKey(i), PdfValueOfLines(counts[i])>>] :
          counts \in [1..n -> PdfLineCounts]}
      : n \in 0..MaxPdfFields }

\* a summary that wraps to n lines
PdfSummaryOfLines(n) == Str(Repeat("s", n * WrapWidth))

\* the lines of a summary that fills more than the first page
PdfLongSummaryLines == 42

PdfExtractions ==
    [documentType : {Undefined},
     extractedText : {PdfTextOfLines(n) : n \in PdfTextLineCounts},
     structuredData : PdfStructuredDatas,
     formattedSummary : {Str(<<>>), Str(<<"s","u","m">>),
                         PdfSummaryOfLines(PdfLongSummaryLines)}]

InitPdf ==
    /\ platform = WebPlatform
    /\ extraction \in PdfExtractions
    /\ docName = Undefined
    /\ rendered = NotRendered
    /\ pdf = PdfIdle
    /\ ExportIdle
    /\ AppIdle

\* buildPdfFromExtractionWeb from its call to the field loop: the title, the
\* summary and, when there are fields, the Details heading
PdfBegin ==
    /\ pdf.at = "idle"
    /\ platform.jsPDF
    /\ LET dataEntries == DataEntries(DataOf(extraction))
           s2 == PdfTitleAndSummary(extraction, docName)
       IN  pdf' = [at |-> "fields",
                   st |-> IF Len(dataEntries) > 0 THEN PdfDetailsHeading(s2) ELSE s2,
                   entries |-> dataEntries,
                   textLines |-> <<>>]
    /\ UNCHANGED <<extraction, docName, rendered, platform, appVars, exportVars>>

\* one field is wrapped and drawn
PdfField ==
    /\ pdf.at = "fields"
    /\ pdf.entries # <<>>
    /\ pdf' = [pdf EXCEPT !.st = PdfFieldStep(Head(pdf.entries), pdf.st),
                          !.entries = Tail(pdf.entries)]
    /\ UNCHANGED <<extraction, docName, rendered, platform, appVars, exportVars>>

\* after the field loop: y += 8 when there were fields; then the Full text
\* heading when there is a full text, or the return of doc
PdfAfterFields ==
    /\ pdf.at = "fields"
    /\ pdf.entries = <<>>
    /\ LET fullText == getFullText(extraction)
           s3 == IF Len(DataEntries(DataOf(extraction))) > 0
                 THEN Advance(pdf.st, PdfSectionGap)
                 ELSE pdf.st
       IN  IF Truthy(fullText)
           THEN /\ pdf' = [pdf EXCEPT !.at = "lines",
                                      !.st = PdfFullTextHeading(s3),
                                      !.textLines = splitTextToSize(JsString(fullText))]
                /\ UNCHANGED rendered
           ELSE /\ pdf' = [pdf EXCEPT !.at = "done", !.st = s3]
                /\ rendered' = [renderer |-> "pdf", out |-> s3.draws]
    /\ UNCHANGED <<extraction, docName, platform, appVars, exportVars>>

\* one line of the full text is drawn
PdfLine ==
    /\ pdf.at = "lines"
    /\ pdf.textLines # <<>>
    /\ pdf' = [pdf EXCEPT !.st = PdfTextStep(Head(pdf.textLines), pdf.st),
                          !.textLines = Tail(pdf.textLines)]
    /\ UNCHANGED <<extraction, docName, rendered, platform, appVars, exportVars>>

\* return doc
PdfReturn ==
    /\ pdf.at = "lines"
    /\ pdf.textLines = <<>>
    /\ pdf' = [pdf EXCEPT !.at = "done"]
    /\ rendered' = [renderer |-> "pdf", out |-> pdf.st.draws]
    /\ UNCHANGED <<extraction, docName, platform, appVars, exportVars>>

NextPdf == PdfBegin \/ PdfField \/ PdfAfterFields \/ PdfLine \/ PdfReturn

SpecPdf == InitPdf /\ [][NextPdf]_vars

----------------------------------------------------------------------------
(* exportDocument: the format registry and the file name *)

\* EXPORT_FORMATS
EXPORT_FORMATS ==
    << [id |-> "pdf", mime |-> "application/pdf", ext |-> <<"p","d","f">>],
       [id |-> "jpeg", mime |-> "image/jpeg", ext |-> <<"j","p","g">>],
       [id |-> "png", mime |-> "image/png", ext |-> <<"p","n","g">>],
       [id |-> "docx",
        mime |-> "application/vnd.openxmlformats-officedocument.wordprocessingml.document",
        ext |-> <<"d","o","c","x">>],
       [id |-> "txt", mime |-> "text/plain", ext |-> <<"t","x","t">>],
       [id |-> "html", mime |-> "text/html", ext |-> <<"h","t","m","l">>] >>

\* FindFormat falling back to the first format for an unknown id
FindFormatOrFirst(id) ==
    IF \E i \in 1..Len(EXPORT_FORMATS) : EXPORT_FORMATS[i].id = id
    THEN CHOOSE i \in 1..Len(EXPORT_FORMATS) : EXPORT_FORMATS[i].id = id
    ELSE 1

\* EXPORT_FORMATS.find((f) => f.id === formatId): the index found, 0 for none
FindFormat(id) ==
    IF \E i \in 1..Len(EXPORT_FORMATS) : EXPORT_FORMATS[i].id = id
    THEN CHOOSE i \in 1..Len(EXPORT_FORMATS) :
             /\ EXPORT_FORMATS[i].id = id
             /\ \A j \in 1..(i - 1) : EXPORT_FORMATS[j].id # id
    ELSE 0

\* StripExtension cutting at the first dot instead of the last
StripFromFirstDot(s) ==
    LET dots == {i \in 1..Len(s) : s[i] = "."}
    IN  IF dots = {} THEN s
        ELSE SubSeq(s, 1, (CHOOSE i \in dots : \A j \in dots : i <= j) - 1)

\* name.replace(/\.[^.]+$/, ''): the last dot and what follows it are removed
\* when at least one character follows it
StripExtension(s) ==
    LET dots == {i \in 1..Len(s) : s[i] = "."}
    IN  IF dots = {} THEN s
        ELSE LET last == CHOOSE i \in dots : \A j \in dots : j <= i
             IN  IF last < Len(s) THEN SubSeq(s, 1, last - 1) ELSE s

\* (savedDoc.name || 'document').replace(/\.[^.]+$/, '')
BaseName(doc) ==
    StripExtension(JsString(OrElse(doc.name, Str(<<"d","o","c","u","m","e","n","t">>))))

\* `${baseName}.${format.ext}`
FileName(doc, format) == BaseName(doc) \o <<".">> \o format.ext

\* s ends with suffix, letter case ignored (the i flag)
EndsWithIgnoreCase(s, suffix) ==
    /\ Len(s) >= Len(suffix)
    /\ ToUpperCase(SubSeq(s, Len(s) - Len(suffix) + 1, Len(s))) = ToUpperCase(suffix)

\* filename.replace(/\.(jpg|jpeg|png)$/i, `.${ext}`)
ReplaceImageExtension(filename, ext) ==
    LET suffixes == << <<".","j","p","g">>, <<".","j","p","e","g">>, <<".","p","n","g">> >>
        hit == {i \in 1..3 : EndsWithIgnoreCase(filename, suffixes[i])}
    IN  IF hit = {} THEN filename
        ELSE LET suffix == suffixes[CHOOSE i \in hit : TRUE]
             IN  SubSeq(filename, 1, Len(filename) - Len(suffix)) \o <<".">> \o ext

\* downloadImageAsFileWeb: the download name for a blob of the given type
\* (blob.type || requestedMime || 'image/jpeg')
ImageDownloadName(filename, blobType, requestedMime) ==
    LET actualMime == IF blobType # "" THEN blobType
                      ELSE IF requestedMime # "" THEN requestedMime
                      ELSE "image/jpeg"
        ext == IF actualMime = "image/png" THEN <<"p","n","g">> ELSE <<"j","p","g">>
    IN  ReplaceImageExtension(filename, ext)

----------------------------------------------------------------------------
(* exportDocument: the call, suspended at each await *)

\* savedDoc.extraction || {}
ExtractionOf(doc) ==
    IF doc.extraction = Null
    THEN [documentType |-> Undefined, extractedText |-> Undefined,
          structuredData |-> <<>>, formattedSummary |-> Undefined]
    ELSE doc.extraction

\* isWeb && typeof window !== 'undefined' && window.document
WebWithWindow == platform.os = "web" /\ platform.window

Settle(r) == /\ pc' = "done"
             /\ result' = r

ThrowError(e) == Settle([status |-> "error", error |-> e])

ReturnMessage(prefix, filename) ==
    Settle([status |-> "ok", prefix |-> prefix, filename |-> filename])

\* the anchor element of a download: link.href, link.download, link.click()
Download(href, name) == [op |-> "download", href |-> href, name |-> name]

\* shareOrDownload(uri, filename, mimeType) up to its first await, called with
\* the effects so far; on the web it returns without suspending
ShareOrDownload(eff, uri, filename, mime, prefix) ==
    IF WebWithWindow
    THEN /\ effects' = Append(eff, Download(uri, filename))
         /\ locals' = [filename |-> filename]
         /\ ReturnMessage(prefix, filename)
    ELSE /\ effects' = Append(eff, [op |-> "isAvailableAsync"])
         /\ locals' = [filename |-> filename, uri |-> uri, mime |-> mime,
                       prefix |-> prefix]
         /\ pc' = "isAvailableAsync"
         /\ UNCHANGED result

\* ImageUriOf without the fallback to originalUri
ImageUriWithoutFallback(doc) == doc.uri

\* savedDoc.uri || savedDoc.originalUri
ImageUriOf(doc) == OrElse(doc.uri, doc.originalUri)

\* SavedDocRead storing the default it read: savedDoc.extraction = savedDoc.extraction || {}
SavedDocWithDefaultExtraction(doc) ==
    IF IsNullish(doc) THEN doc ELSE [doc EXCEPT !.extraction = ExtractionOf(doc)]

\* the savedDoc object once exportDocument has read it (savedDoc.name, .uri,
\* .originalUri, savedDoc.extraction || {}): no property is assigned
SavedDocRead(doc) == doc

\* WebWithJsPDF holding on every platform
PdfLayoutEverywhere == TRUE

\* isWeb && jsPDF
WebWithJsPDF == platform.os = "web" /\ platform.jsPDF

\* exportDocument(savedDoc, formatId) from the call to its first await, or to
\* its end when it does not suspend
ExportCall(doc, id) ==
    /\ pc = "idle"
    /\ savedDoc' = SavedDocRead(doc)
    /\ formatId' = id
    /\ UNCHANGED <<renderVars, platform, appVars>>
    /\ LET format == EXPORT_FORMATS[FindFormat(id)]
           filename == FileName(doc, format)
           WebWindow == WebWithWindow
       IN  IF IsNullish(doc)
           THEN /\ ThrowError("No document provided")
                /\ UNCHANGED <<locals, effects>>
           ELSE IF FindFormat(id) = 0
           THEN /\ ThrowError("Unsupported format")
                /\ UNCHANGED <<locals, effects>>
           ELSE
           CASE id = "pdf" ->
                  IF WebWithJsPDF
                  THEN /\ effects' =
                            <<[op |-> "render", renderer |-> "pdf",
                               out |-> buildPdfFromExtractionWeb(ExtractionOf(doc), doc.name)],
                              Download("blob:pdf", filename)>>
                       /\ locals' = [filename |-> filename]
                       /\ ReturnMessage("Downloaded", filename)
                  ELSE /\ effects' =
                            <<[op |-> "render", renderer |-> "html",
                               out |-> buildHtmlFromExtraction(ExtractionOf(doc), doc.name)],
                              [op |-> "printToFileAsync"]>>
                       /\ locals' = [filename |-> filename, mime |-> format.mime]
                       /\ pc' = "printToFileAsync"
                       /\ UNCHANGED result
             [] id \in {"jpeg", "png"} ->
                  LET imageUri == ImageUriOf(doc)
                  IN  IF ~Truthy(imageUri)
                      THEN /\ ThrowError("Document has no image to export")
                           /\ UNCHANGED <<locals, effects>>
                      ELSE IF WebWindow
                      THEN /\ effects' = <<[op |-> "fetch", uri |-> imageUri]>>
                           /\ locals' = [filename |-> filename, mime |-> format.mime]
                           /\ pc' = "fetch"
                           /\ UNCHANGED result
                      ELSE ShareOrDownload(<<>>, imageUri, filename, format.mime, "Shared")
             [] id = "docx" ->
                  /\ effects' =
                       <<[op |-> "render", renderer |-> "docx",
                          out |-> buildDocxFromExtraction(ExtractionOf(doc), doc.name)],
                         [op |-> IF WebWindow THEN "toBlob" ELSE "toBase64String"]>>
                  /\ locals' = [filename |-> filename, mime |-> format.mime]
                  /\ pc' = "pack"
                  /\ UNCHANGED result
             [] id = "txt" ->
                  LET render == [op |-> "render", renderer |-> "txt",
                                 out |-> buildTextFromExtraction(ExtractionOf(doc))]
                  IN  IF WebWindow
                      THEN /\ effects' = <<render, Download("blob:txt", filename)>>
                           /\ locals' = [filename |-> filename]
                           /\ ReturnMessage("Downloaded", filename)
                      ELSE /\ effects' = <<render, [op |-> "writeAsStringAsync",
                                                    path |-> <<"dir/">> \o filename]>>
                           /\ locals' = [filename |-> filename, mime |-> format.mime]
                           /\ pc' = "writeAsStringAsync"
                           /\ UNCHANGED result
             [] OTHER ->
                  LET render == [op |-> "render", renderer |-> "html",
                                 out |-> buildHtmlFromExtraction(ExtractionOf(doc), doc.name)]
                  IN  IF WebWindow
                      THEN /\ effects' = <<render, Download("blob:html", filename)>>
                           /\ locals' = [filename |-> filename]
                           /\ ReturnMessage("Downloaded", filename)
                      ELSE /\ effects' = <<render, [op |-> "writeAsStringAsync",
                                                    path |-> <<"dir/">> \o filename]>>
                           /\ locals' = [filename |-> filename, mime |-> format.mime]
                           /\ pc' = "writeAsStringAsync"
                           /\ UNCHANGED result

\* Print.printToFileAsync settles: its file is shared, or its error propagates
PrintSettles(ok) ==
    /\ pc = "printToFileAsync"
    /\ UNCHANGED <<renderVars, platform, appVars, savedDoc, formatId>>
    /\ IF ok
       THEN ShareOrDownload(effects, Str(<<"print:file">>), locals.filename,
                            locals.mime, "Exported as")
       ELSE /\ ThrowError("printToFileAsync failed")
            /\ UNCHANGED <<locals, effects>>

\* Packer.toBlob (web) or Packer.toBase64String (native) settles
PackSettles(ok) ==
    /\ pc = "pack"
    /\ UNCHANGED <<renderVars, platform, appVars, savedDoc, formatId>>
    /\ IF ~ok
       THEN /\ ThrowError("Packer failed")
            /\ UNCHANGED <<locals, effects>>
       ELSE IF WebWithWindow
       THEN /\ effects' = Append(effects, Download("blob:docx", locals.filename))
            /\ ReturnMessage("Downloaded", locals.filename)
            /\ UNCHANGED locals
       ELSE /\ effects' = Append(effects, [op |-> "writeAsStringAsync",
                                           path |-> <<"dir/">> \o locals.filename])
            /\ pc' = "writeAsStringAsync"
            /\ UNCHANGED <<locals, result>>

\* FileSystem.writeAsStringAsync settles: the written path is shared
WriteSettles(ok) ==
    /\ pc = "writeAsStringAsync"
    /\ UNCHANGED <<renderVars, platform, appVars, savedDoc, formatId>>
    /\ IF ok
       THEN ShareOrDownload(effects, Str(<<"dir/">> \o locals.filename),
                            locals.filename, locals.mime, "Exported")
       ELSE /\ ThrowError("writeAsStringAsync failed")
            /\ UNCHANGED <<locals, effects>>

\* Sharing.isAvailableAsync settles; when sharing is not available
\* shareOrDownload returns and exportDocument returns its message
AvailableSettles(outcome) ==
    /\ pc = "isAvailableAsync"
    /\ UNCHANGED <<renderVars, platform, appVars, savedDoc, formatId, locals>>
    /\ CASE outcome = "available" ->
              /\ effects' = Append(effects,
                     [op |-> "shareAsync", uri |-> locals.uri, mime |-> locals.mime,
                      dialogTitle |-> locals.filename])
              /\ pc' = "shareAsync"
              /\ UNCHANGED result
         [] outcome = "unavailable" ->
              /\ ReturnMessage(locals.prefix, locals.filename)
              /\ UNCHANGED effects
         [] OTHER ->
              /\ ThrowError("isAvailableAsync failed")
              /\ UNCHANGED effects

\* Sharing.shareAsync settles
ShareSettles(ok) ==
    /\ pc = "shareAsync"
    /\ UNCHANGED <<renderVars, platform, appVars, savedDoc, formatId, locals, effects>>
    /\ IF ok THEN ReturnMessage(locals.prefix, locals.filename)
       ELSE ThrowError("shareAsync failed")

\* downloadImageAsFileWeb: fetch(imageUri) settles
FetchSettles(outcome) ==
    /\ pc = "fetch"
    /\ UNCHANGED <<renderVars, platform, appVars, savedDoc, formatId, locals>>
    /\ CASE outcome = "ok" ->
              /\ effects' = Append(effects, [op |-> "blob"])
              /\ pc' = "blob"
              /\ UNCHANGED result
         [] outcome = "not ok" ->
              /\ ThrowError("Could not load image")
              /\ UNCHANGED effects
         [] OTHER ->
              /\ ThrowError("fetch failed")
              /\ UNCHANGED effects

BlobTypes == {"image/png", "image/jpeg", "image/webp", ""}

\* downloadImageAsFileWeb: response.blob() settles with a blob of some type
BlobSettles(ok, blobType) ==
    /\ pc = "blob"
    /\ UNCHANGED <<renderVars, platform, appVars, savedDoc, formatId, locals>>
    /\ IF ok
       THEN /\ effects' = Append(effects,
                   Download("blob:image",
                            ImageDownloadName(locals.filename, blobType, locals.mime))
                   @@ [blobType |-> blobType])
            /\ ReturnMessage("Downloaded", locals.filename)
       ELSE /\ ThrowError("blob failed")
            /\ UNCHANGED effects

\* the document names, image references and extractions of a saved document
SavedNames ==
    {Undefined, Str(<<"s",".","j","p","g">>), Str(<<"a",".","b",".","c">>),
     Str(<<"n">>), Str(<<"a",".">>)}
ImageUris == {Undefined, Str(<<>>), Str(<<"u">>)}
OriginalUris == {Undefined, Str(<<"o">>)}
SavedExtractions ==
    {Null,
     [documentType |-> Str(<<"r","e","c","e","i","p","t">>),
      extractedText |-> Str(<<"x","&","y">>),
      structuredData |-> << <<VendorNameKey, Str(<<"A","<">>)>> >>,
      formattedSummary |-> Str(<<>>)]}

SavedDocs ==
    {Null} \cup [t : {"object"}, name : SavedNames, uri : ImageUris, originalUri : OriginalUris,
                 extraction : SavedExtractions]

FormatIds == {"pdf", "jpeg", "png", "docx", "txt", "html", "webp"}

\* Platform.OS, whether window.document exists, whether jspdf was loaded
Platforms ==
    {[os |-> "web", window |-> TRUE, jsPDF |-> TRUE],
     [os |-> "web", window |-> TRUE, jsPDF |-> FALSE],
     [os |-> "ios", window |-> FALSE, jsPDF |-> FALSE]}

InitExport ==
    /\ platform \in Platforms
    /\ extraction = [documentType |-> Undefined, extractedText |-> Undefined,
                     structuredData |-> <<>>, formattedSummary |-> Undefined]
    /\ docName = Undefined
    /\ rendered = NotRendered
    /\ pdf = PdfIdle
    /\ ExportIdle
    /\ AppIdle

NextExport ==
    \/ \E doc \in SavedDocs, id \in FormatIds : ExportCall(doc, id)
    \/ \E ok \in BOOLEAN : PrintSettles(ok)
    \/ \E ok \in BOOLEAN : PackSettles(ok)
    \/ \E ok \in BOOLEAN : WriteSettles(ok)
    \/ \E outcome \in {"available", "unavailable", "throws"} : AvailableSettles(outcome)
    \/ \E ok \in BOOLEAN : ShareSettles(ok)
    \/ \E outcome \in {"ok", "not ok", "throws"} : FetchSettles(outcome)
    \/ \E ok \in BOOLEAN, blobType \in BlobTypes : BlobSettles(ok, blobType)

SpecExport == InitExport /\ [][NextExport]_vars

----------------------------------------------------------------------------
(* Exports of a document the caller holds, one call after the other *)

InitStored ==
    /\ platform \in Platforms
    /\ extraction = [documentType |-> Undefined, extractedText |-> Undefined,
                     structuredData |-> <<>>, formattedSummary |-> Undefined]
    /\ docName = Undefined
    /\ rendered = NotRendered
    /\ pdf = PdfIdle
    /\ savedDoc \in SavedDocs
    /\ formatId = "none"
    /\ pc = "idle"
    /\ locals = [filename |-> <<>>]
    /\ effects = <<>>
    /\ result = [status |-> "none"]
    /\ AppIdle

\* a caller hands the document it holds to exportDocument
ExportStored(id) == ExportCall(savedDoc, id)

\* the caller after its await (handleExport): the message or the error was
\* taken, and the next export of the document can be asked for
ExportTaken ==
    /\ pc = "done"
    /\ pc' = "idle"
    /\ formatId' = "none"
    /\ locals' = [filename |-> <<>>]
    /\ effects' = <<>>
    /\ result' = [status |-> "none"]
    /\ UNCHANGED <<renderVars, platform, appVars, savedDoc>>

NextStored ==
    \/ \E id \in FormatIds : ExportStored(id)
    \/ ExportTaken
    \/ \E ok \in BOOLEAN : PrintSettles(ok)
    \/ \E ok \in BOOLEAN : PackSettles(ok)
    \/ \E ok \in BOOLEAN : WriteSettles(ok)
    \/ \E outcome \in {"available", "unavailable", "throws"} : AvailableSettles(outcome)
    \/ \E ok \in BOOLEAN : ShareSettles(ok)
    \/ \E outcome \in {"ok", "not ok", "throws"} : FetchSettles(outcome)
    \/ \E ok \in BOOLEAN, blobType \in BlobTypes : BlobSettles(ok, blobType)

SpecStored == InitStored /\ [][NextStored]_vars

----------------------------------------------------------------------------
(* Reading a rendering back *)

RECURSIVE FlatSlots(_)
\* the slots of a rendering with a table replaced by its rows
FlatSlots(out) ==
    IF out = <<>> THEN <<>>
    ELSE (IF Head(out).kind = "table" THEN Head(out).rows ELSE <<Head(out)>>)
         \o FlatSlots(Tail(out))

IsFieldSlot(sl) == sl.kind = "field"
IsFullTextSlot(sl) == sl.kind = "fulltext"

\* the labeled fields of a rendering, in output order
FieldsOf(out) == SelectSeq(FlatSlots(out), IsFieldSlot)

\* the keys that got a labeled field
EmittedKeys(out) == {FieldsOf(out)[i].key : i \in 1..Len(FieldsOf(out))}

StartsWith(s, p) == Len(s) >= Len(p) /\ SubSeq(s, 1, Len(p)) = p

Entities == {AmpEntity, LtEntity, GtEntity, QuotEntity, AposEntity}

EntityChar(e) ==
    CASE e = AmpEntity -> "&"
      [] e = LtEntity -> "<"
      [] e = GtEntity -> ">"
      [] e = QuotEntity -> "\""
      [] OTHER -> "'"

RECURSIVE DecodeEntities(_)
\* what a browser shows for escaped text: each entity read as its character
DecodeEntities(s) ==
    IF s = <<>> THEN <<>>
    ELSE IF \E e \in Entities : StartsWith(s, e)
    THEN LET e == CHOOSE f \in Entities : StartsWith(s, f)
         IN  <<EntityChar(e)>> \o DecodeEntities(SubSeq(s, Len(e) + 1, Len(s)))
    ELSE <<Head(s)>> \o DecodeEntities(Tail(s))

\* no reserved character of s stands for itself: & only opens an entity, and
\* < > " ' do not occur
NoRawReserved(s) ==
    \A i \in 1..Len(s) :
        /\ s[i] \notin {"<", ">", "\"", "'"}
        /\ s[i] = "&" => \E e \in Entities : StartsWith(SubSeq(s, i, Len(s)), e)

\* the full-text sections of a rendering, each as the text it shows (the PDF
\* draws the section line by line under its heading)
FullTextSections(r, out) ==
    LET texts == SelectSeq(FlatSlots(out), IsFullTextSlot)
    IN  CASE r = "pdf" ->
               IF \E i \in 1..Len(out) : out[i].kind = "heading"
               THEN <<Concat([i \in 1..Len(texts) |-> texts[i].text])>>
               ELSE <<>>
          [] r = "html" -> [i \in 1..Len(texts) |-> DecodeEntities(texts[i].text)]
          [] OTHER -> [i \in 1..Len(texts) |-> texts[i].text]

\* the creation index of a key in structuredData (0: no such key)
InsertedAt(data, key) ==
    IF \E i \in 1..Len(data) : data[i][1] = key
    THEN CHOOSE i \in 1..Len(data) : data[i][1] = key
    ELSE 0

\* the place of a key's labeled field in a rendering (0: none)
EmittedAt(out, key) ==
    IF \E i \in 1..Len(FieldsOf(out)) : FieldsOf(out)[i].key = key
    THEN CHOOSE i \in 1..Len(FieldsOf(out)) : FieldsOf(out)[i].key = key
    ELSE 0

HasRendered == rendered.renderer # "none"

----------------------------------------------------------------------------
(* Claims about the renderers *)

\* C1: in every renderer, the key rawText of structuredData is never emitted
\* as a labeled field (no text line, table row or PDF field block), whatever
\* its value.
C1_RawTextNeverAField ==
    HasRendered => RawTextKey \notin EmittedKeys(rendered.out)

\* C1 witness: a rendering of an extraction whose rawText is a non-empty
\* string, next to a field that was emitted
C1_Witness ==
    /\ rendered.renderer = "pdf"
    /\ GetProp(extraction.structuredData, RawTextKey) = Str(<<"r","<","w">>)
    /\ VendorNameKey \in EmittedKeys(rendered.out)

\* what the claim says the full-text section shows
C2_ClaimedFullText(ex) ==
    LET rawText == GetProp(ex.structuredData, RawTextKey)
    IN  IF Truthy(ex.extractedText) THEN <<JsString(ex.extractedText)>>
        ELSE IF ~IsNullish(rawText) /\ JsString(rawText) # <<>>
        THEN <<JsString(rawText)>>
        ELSE <<>>

\* C2: all four renderers select the same full-text value and show it exactly
\* once: extractedText when non-empty, otherwise rawText when it is set,
\* otherwise no full-text section.
C2_SameFullTextEverywhere ==
    HasRendered =>
        /\ \A r \in Renderers :
               FullTextSections(r, Render(r, extraction, docName))
                   = FullTextSections(rendered.renderer, rendered.out)
        /\ FullTextSections(rendered.renderer, rendered.out)
               = C2_ClaimedFullText(extraction)

\* the keys the claim makes eligible
C3_EligibleKeys(data) ==
    {data[i][1] : i \in {j \in 1..Len(data) :
                            /\ data[j][1] # RawTextKey
                            /\ ~IsNullish(data[j][2])
                            /\ data[j][2] # Arr(<<>>)}}

\* C3: every renderer emits labeled fields for exactly the keys other than
\* rawText whose value is neither null/undefined nor an empty array.
C3_SameEligibleKeys ==
    HasRendered => EmittedKeys(rendered.out) = C3_EligibleKeys(extraction.structuredData)

\* C4 as claimed: for any two emitted keys a and b, a's field precedes b's
\* field if and only if a was inserted into structuredData before b.
C4_InsertionOrder ==
    HasRendered =>
        \A a, b \in EmittedKeys(rendered.out) :
            EmittedAt(rendered.out, a) < EmittedAt(rendered.out, b)
                <=> InsertedAt(extraction.structuredData, a)
                        < InsertedAt(extraction.structuredData, b)

\* C4 as amended: the labeled fields appear in the property enumeration order
\* of structuredData: keys that are canonical array indices first, in
\* ascending numeric order, then every other key in insertion order.
C4_EnumerationOrder ==
    HasRendered =>
        \A a, b \in EmittedKeys(rendered.out) :
            EmittedAt(rendered.out, a) < EmittedAt(rendered.out, b)
                <=> \/ IsArrayIndex(a) /\ ~IsArrayIndex(b)
                    \/ /\ IsArrayIndex(a) /\ IsArrayIndex(b)
                       /\ StringToNat(a) < StringToNat(b)
                    \/ /\ ~IsArrayIndex(a) /\ ~IsArrayIndex(b)
                       /\ InsertedAt(extraction.structuredData, a)
                              < InsertedAt(extraction.structuredData, b)

\* C4 witness: three fields emitted, the integer-like key created last and
\* shown first, the two named keys in their creation order
C4_Witness ==
    /\ rendered.renderer = "html"
    /\ Len(FieldsOf(rendered.out)) = 3
    /\ InsertedAt(extraction.structuredData, SevenKey) = 3
    /\ EmittedAt(rendered.out, SevenKey) = 1
    /\ InsertedAt(extraction.structuredData, ItemsKey) = 1
    /\ EmittedAt(rendered.out, ItemsKey) = 2

\* C5: in the HTML, every structured field value and the full text went
\* through escapeHtml: none of & < > " ' stands for itself, and reading the
\* entities back gives the value, so nothing was escaped twice.
C5_ValuesAndFullTextEscaped ==
    rendered.renderer = "html" =>
        \A i \in 1..Len(rendered.out) :
            LET sl == rendered.out[i]
            IN  /\ sl.kind = "field" =>
                     /\ NoRawReserved(sl.text)
                     /\ DecodeEntities(sl.text)
                            = DisplayFor(GetProp(extraction.structuredData, sl.key))
                /\ sl.kind = "fulltext" =>
                     /\ NoRawReserved(sl.text)
                     /\ DecodeEntities(sl.text)
                            \in {JsString(extraction.extractedText),
                                 JsString(GetProp(extraction.structuredData, RawTextKey))}

\* C5 witness: an HTML rendering with a value holding all five reserved
\* characters and a full text holding &
C5_Witness ==
    /\ rendered.renderer = "html"
    /\ \E i \in 1..Len(rendered.out) :
           /\ rendered.out[i].kind = "field"
           /\ rendered.out[i].key = VendorNameKey
           /\ rendered.out[i].text
                  = AmpEntity \o LtEntity \o GtEntity \o QuotEntity \o AposEntity
    /\ \E i \in 1..Len(rendered.out) :
           /\ rendered.out[i].kind = "fulltext"
           /\ rendered.out[i].text = <<"x">> \o AmpEntity \o <<"y">>

\* C6: in the HTML, the document name (title element and body heading) and
\* the summary are escaped: no raw & < > " ' of them reaches the output.
C6_NameAndSummaryEscaped ==
    rendered.renderer = "html" =>
        \A i \in 1..Len(rendered.out) :
            rendered.out[i].kind \in {"title", "h1", "p"}
                => NoRawReserved(rendered.out[i].text)

\* the kinds of the slots of a rendering
KindsOf(out) == {out[i].kind : i \in 1..Len(out)}

\* the texts of the slots of a kind, in output order
TextsOf(out, kind) ==
    LET hits == SelectSeq(out, LAMBDA sl : sl.kind = kind)
    IN  [i \in 1..Len(hits) |-> hits[i].text]

ScannedDocument == <<"S","c","a","n","n","e","d"," ","d","o","c","u","m","e","n","t">>

\* C15 as claimed: the HTML renderer omits every missing or empty section:
\* no summary element when formattedSummary is empty, no table when there is
\* no eligible field, no full-text heading or block when there is no full
\* text.
C15_HtmlOmitsEmptySections ==
    rendered.renderer = "html" =>
        /\ ~Truthy(extraction.formattedSummary) => "p" \notin KindsOf(rendered.out)
        /\ C3_EligibleKeys(extraction.structuredData) = {}
               => KindsOf(rendered.out) \cap {"table_open", "field", "table_close"} = {}
        /\ C2_ClaimedFullText(extraction) = <<>>
               => KindsOf(rendered.out) \cap {"h2", "fulltext"} = {}

\* C15 as amended: the table and the full-text heading and block are omitted
\* when there is no eligible field and no full text, and present otherwise;
\* the summary paragraph is always there, holding the summary, or the fixed
\* text "Scanned document" when formattedSummary is empty.
C15_HtmlOmitsTableAndFullText ==
    rendered.renderer = "html" =>
        /\ TextsOf(rendered.out, "p")
               = <<IF Truthy(extraction.formattedSummary)
                   THEN extraction.formattedSummary.s ELSE ScannedDocument>>
        /\ IF C3_EligibleKeys(extraction.structuredData) = {}
           THEN KindsOf(rendered.out) \cap {"table_open", "field", "table_close"} = {}
           ELSE {"table_open", "field", "table_close"} \subseteq KindsOf(rendered.out)
        /\ C2_ClaimedFullText(extraction) = <<>>
               => KindsOf(rendered.out) \cap {"h2", "fulltext"} = {}
        /\ Truthy(extraction.extractedText)
               => {"h2", "fulltext"} \subseteq KindsOf(rendered.out)

\* C15 witness: an HTML rendering of an extraction with no summary, no
\* eligible field (an empty items array only) and no full text: the title,
\* the heading, the "Scanned document" paragraph and the rule, nothing else
C15_Witness ==
    /\ rendered.renderer = "html"
    /\ extraction.structuredData = << <<ItemsKey, Arr(<<>>)>> >>
    /\ KindsOf(rendered.out) = {"title", "h1", "p", "hr"}
    /\ TextsOf(rendered.out, "p") = <<ScannedDocument>>

RECURSIVE C16_SpaceBeforeInternalUpper(_, _)
\* the characters of key from position i on, a space put before each
\* upper-case letter that is not the first character of key
C16_SpaceBeforeInternalUpper(key, i) ==
    IF i > Len(key) THEN <<>>
    ELSE (IF i > 1 /\ IsUpper(key[i]) THEN <<" ", key[i]>> ELSE <<key[i]>>)
         \o C16_SpaceBeforeInternalUpper(key, i + 1)

\* the label the claim gives a key
C16_ClaimedLabel(key) ==
    LET spaced == C16_SpaceBeforeInternalUpper(key, 1)
    IN  <<ToUpperChar(spaced[1])>> \o Tail(spaced)

\* C16: in every renderer the label of a field key is the key with one space
\* before each internal upper-case letter and its first character
\* capitalized, nothing else added, so it never starts with a space
\* (issueDate: "Issue Date", mrzLine1: "Mrz Line1").
C16_LabelSplitsInternalCapitals ==
    HasRendered =>
        \A i \in 1..Len(FieldsOf(rendered.out)) :
            LET f == FieldsOf(rendered.out)[i]
            IN  /\ f.label = C16_ClaimedLabel(f.key)
                /\ f.label[1] # " "

\* s ends with suffix
EndsWith(s, suffix) ==
    /\ Len(s) >= Len(suffix)
    /\ SubSeq(s, Len(s) - Len(suffix) + 1, Len(s)) = suffix

\* the eligible fields in the order of the rendering, as the lines the claim
\* gives them
C17_FieldLines(ex) ==
    LET es == SelectSeq(ObjectEntries(ex.structuredData),
                        LAMBDA e : e[1] \in C3_EligibleKeys(ex.structuredData))
    IN  Concat([i \in 1..Len(es) |->
                   LabelFor(es[i][1]) \o <<":"," ">> \o DisplayFor(es[i][2]) \o <<"\n">>])

\* the header line and the separator rule
C17_Header(ex) ==
    ToUpperCase(IF Truthy(ex.documentType) THEN ex.documentType.s
                ELSE <<"o","t","h","e","r">>)
        \o <<" ","D","O","C","U","M","E","N","T","\n">> \o Repeat("=", 40) \o <<"\n">>

RECURSIVE C17_DropNewlines(_)
\* s without its line breaks
C17_DropNewlines(s) ==
    IF s = <<>> THEN <<>>
    ELSE (IF Head(s) = "\n" THEN <<>> ELSE <<Head(s)>>) \o C17_DropNewlines(Tail(s))

\* C17: the text export is, in this order, the header line "<TYPE> DOCUMENT"
\* in upper case and a separator rule, the summary if non-empty, one line
\* "<Label>: <display>" per eligible field, and last the full-text section;
\* when full text exists the output ends with "FULL TEXT:\n" and the full
\* text, nothing after it.
C17_TextExportLayout ==
    rendered.renderer = "txt" =>
        LET ex == extraction
            full == C2_ClaimedFullText(ex)
            section == IF full = <<>> THEN <<>>
                       ELSE <<"F","U","L","L"," ","T","E","X","T",":","\n">> \o full[1]
            summary == IF Truthy(ex.formattedSummary) THEN ex.formattedSummary.s ELSE <<>>
        IN  \* the parts in the claimed order, blank lines between them aside
            /\ C17_DropNewlines(rendered.str)
                   = C17_DropNewlines(C17_Header(ex) \o summary \o C17_FieldLines(ex)
                                      \o section)
            \* the header and the rule come first, each on its own line
            /\ StartsWith(rendered.str, C17_Header(ex))
            \* one line per eligible field
            /\ \A i \in 1..Len(FieldsOf(rendered.out)) :
                   LET f == FieldsOf(rendered.out)[i]
                   IN  f.key \in C3_EligibleKeys(ex.structuredData)
            \* the end of the output
            /\ full # <<>> => EndsWith(rendered.str, section)

\* 1 for TRUE, 0 for FALSE
C18_Count(b) == IF b THEN 1 ELSE 0

\* C18: the tree of buildDocxFromExtraction is, in this order: one title
\* paragraph; a summary paragraph iff the summary is non-empty; iff there is
\* an eligible field, one table with exactly one row per eligible field and
\* then a spacer paragraph; iff full text exists, a "Full text" heading and a
\* body paragraph holding the full text verbatim.  It has
\* 1 + [summary] + 2*[fields] + 2*[full text] top-level children.
C18_DocxTree ==
    rendered.renderer = "docx" =>
        LET out == rendered.out
            hasSummary == Truthy(extraction.formattedSummary)
            eligible == C3_EligibleKeys(extraction.structuredData)
            full == C2_ClaimedFullText(extraction)
            kinds == [i \in 1..Len(out) |-> out[i].kind]
        IN  /\ kinds = <<"title">>
                       \o (IF hasSummary THEN <<"summary">> ELSE <<>>)
                       \o (IF eligible # {} THEN <<"table", "spacer">> ELSE <<>>)
                       \o (IF full # <<>> THEN <<"heading", "fulltext">> ELSE <<>>)
            /\ Len(out) = 1 + C18_Count(hasSummary) + 2 * C18_Count(eligible # {})
                              + 2 * C18_Count(full # <<>>)
            /\ hasSummary => out[2].text = extraction.formattedSummary.s
            /\ \A i \in 1..Len(out) :
                   /\ out[i].kind = "table" =>
                          /\ Len(out[i].rows) = Cardinality(eligible)
                          /\ {out[i].rows[j].key : j \in 1..Len(out[i].rows)} = eligible
                   /\ out[i].kind = "heading"
                          => out[i].text = <<"F","u","l","l"," ","t","e","x","t">>
                   /\ out[i].kind = "fulltext" => out[i].text = full[1]

\* C18 witness: a tree of all six children: summary, a table of one row
\* (an empty items array got none) and the full text taken from rawText
C18_Witness ==
    /\ rendered.renderer = "docx"
    /\ Len(rendered.out) = 6
    /\ GetProp(extraction.structuredData, ItemsKey) = Arr(<<>>)
    /\ Len(rendered.out[3].rows) = 1
    /\ rendered.out[3].rows[1].key = VendorNameKey
    /\ rendered.out[6].text = <<"r","<","w">>

----------------------------------------------------------------------------
(* Claims about exportDocument *)

\* the effects that hand something to the user: a browser download or the
\* share sheet
IsDelivery(e) == e.op \in {"download", "shareAsync"}

Delivered == \E i \in 1..Len(effects) : IsDelivery(effects[i])

\* C7: exportDocument validates first: without a document it fails with the
\* no-document error, with a formatId outside the six registry ids it fails
\* with the unsupported-format error, and in both cases no renderer, file
\* write, fetch or share/download primitive has been invoked.
C7_ValidatesFirst ==
    pc # "idle" =>
        /\ IsNullish(savedDoc) =>
               /\ pc = "done"
               /\ result = [status |-> "error", error |-> "No document provided"]
               /\ effects = <<>>
        /\ (~IsNullish(savedDoc)
            /\ formatId \notin {"pdf", "jpeg", "png", "docx", "txt", "html"}) =>
               /\ pc = "done"
               /\ result = [status |-> "error", error |-> "Unsupported format"]
               /\ effects = <<>>

\* C7 witness: a call with a document and the format id webp has settled
C7_Witness ==
    /\ pc = "done"
    /\ ~IsNullish(savedDoc)
    /\ formatId = "webp"
    /\ result.status = "error"

\* the image reference the claim names: uri when set (non-empty), otherwise
\* originalUri
C8_ClaimedImage(doc) == IF Truthy(doc.uri) THEN doc.uri ELSE doc.originalUri

\* C8: an image export (jpeg, png) uses the document's uri when it is set and
\* otherwise its originalUri, and fails with the no-image error, nothing
\* invoked, exactly when neither is set.
C8_ImageReference ==
    (pc # "idle" /\ ~IsNullish(savedDoc) /\ formatId \in {"jpeg", "png"}) =>
        IF ~Truthy(savedDoc.uri) /\ ~Truthy(savedDoc.originalUri)
        THEN /\ pc = "done"
             /\ result = [status |-> "error",
                          error |-> "Document has no image to export"]
             /\ effects = <<>>
        ELSE /\ effects # <<>>
             /\ result # [status |-> "error",
                          error |-> "Document has no image to export"]
             /\ \A i \in 1..Len(effects) :
                    effects[i].op \in {"fetch", "shareAsync"}
                        => effects[i].uri = C8_ClaimedImage(savedDoc)
             /\ (result.status = "ok" /\ WebWithWindow) =>
                    \E i, j \in 1..Len(effects) :
                        /\ i < j
                        /\ effects[i] = [op |-> "fetch", uri |-> C8_ClaimedImage(savedDoc)]
                        /\ effects[j].op = "download"

\* C8 witness: a document with no uri was shared as an image from its
\* originalUri, and the export succeeded
C8_Witness ==
    /\ pc = "done"
    /\ ~IsNullish(savedDoc)
    /\ formatId = "png"
    /\ savedDoc.uri = Undefined
    /\ result.status = "ok"
    /\ \E i \in 1..Len(effects) :
           effects[i].op = "shareAsync" /\ effects[i].uri = Str(<<"o">>)

\* C9: an export never reports success unless the artifact was handed to a
\* delivery primitive, and the delivery is not retried.
C9_SuccessMeansDelivered ==
    /\ result.status = "ok" => Delivered
    /\ Cardinality({i \in 1..Len(effects) : IsDelivery(effects[i])}) <= 1

\* the base names and extensions the claim gives, written out
C10_ClaimedBase(name) ==
    CASE name = Str(<<"s",".","j","p","g">>) -> <<"s">>
      [] name = Str(<<"a",".","b",".","c">>) -> <<"a",".","b">>
      [] name = Str(<<"n">>) -> <<"n">>
      [] name = Str(<<"a",".">>) -> <<"a",".">>
      [] OTHER -> <<"d","o","c","u","m","e","n","t">>

C10_ClaimedExt(id) ==
    CASE id = "pdf" -> <<"p","d","f">>
      [] id = "jpeg" -> <<"j","p","g">>
      [] id = "png" -> <<"p","n","g">>
      [] id = "docx" -> <<"d","o","c","x">>
      [] id = "txt" -> <<"t","x","t">>
      [] OTHER -> <<"h","t","m","l">>

C10_ClaimedName == C10_ClaimedBase(savedDoc.name) \o <<".">> \o C10_ClaimedExt(formatId)

\* the extension a web image download gets: that of the fetched bytes
C10_ActualImageExt(blobType) ==
    LET type == IF blobType # "" THEN blobType
                ELSE IF formatId = "png" THEN "image/png" ELSE "image/jpeg"
    IN  IF type = "image/png" THEN <<"p","n","g">> ELSE <<"j","p","g">>

IsRender(e) == e.op = "render"

Renders == SelectSeq(effects, IsRender)

\* C11 as claimed: a successful export of a text-derived format invoked
\* exactly one renderer, the one of the requested format (txt: text, html:
\* HTML, docx: document model, pdf: PDF layout), and a successful image
\* export invoked none.
C11_MatchingRenderer ==
    result.status = "ok" =>
        IF formatId \in {"jpeg", "png"} THEN Renders = <<>>
        ELSE Len(Renders) = 1 /\ Renders[1].renderer = formatId

\* C11 as amended: as claimed, except that a pdf export invokes the PDF
\* layout renderer only on the web with jsPDF loaded; everywhere else it
\* invokes the HTML renderer, whose output is printed to a PDF file.
C11_MatchingRendererAmended ==
    result.status = "ok" =>
        IF formatId \in {"jpeg", "png"} THEN Renders = <<>>
        ELSE /\ Len(Renders) = 1
             /\ Renders[1].renderer =
                    IF formatId = "pdf" /\ ~(platform.os = "web" /\ platform.jsPDF)
                    THEN "html" ELSE formatId

\* C11 witness: a pdf export off the web succeeded through the HTML renderer
\* and the share sheet
C11_Witness ==
    /\ result.status = "ok"
    /\ formatId = "pdf"
    /\ platform.os = "ios"
    /\ Len(Renders) = 1
    /\ Renders[1].renderer = "html"
    /\ \E i \in 1..Len(effects) : effects[i].op = "shareAsync"

----------------------------------------------------------------------------
(* Claims about the PDF layout *)

\* the step machine and the operator agree on the finished layout
PdfStepsAgree == pdf.at = "done" => pdf.st = PdfLayout(extraction, docName)

\* the draw a step has just added
LastDraw(st) == st.draws[Len(st.draws)]

\* what the claim says of the step that draws a field of n wrapped lines
\* with the cursor at y: one block of n lines is drawn, on a new page at the
\* top margin 20 exactly when y + 6*n > 270, otherwise where the cursor is,
\* and no page is started after its first line
C12_FieldStep ==
    (pdf.at = "fields" /\ pdf.entries # <<>>) =>
        LET e == Head(pdf.entries)
            n == Len(splitTextToSize(LabelFor(e[1]) \o <<":", " ">> \o DisplayFor(e[2])))
            d == LastDraw(pdf'.st)
        IN  /\ Len(pdf'.st.draws) = Len(pdf.st.draws) + 1
            /\ d.kind = "field"
            /\ d.key = e[1]
            /\ Len(d.lines) = n
            /\ IF pdf.st.y + 6 * n > 270
               THEN d.page = pdf.st.page + 1 /\ d.y = 20
               ELSE d.page = pdf.st.page /\ d.y = pdf.st.y
            /\ pdf'.st.page = d.page

\* C12: in the PDF layout every field's wrapped lines are drawn together on
\* one page: before a field of n lines is drawn at cursor y, a new page is
\* started (y reset to 20) exactly when y + 6*n > 270, and no page break
\* falls between two lines of the field.
C12_FieldsKeptTogether == [][C12_FieldStep]_vars

\* C12 witness: the second field, of 20 lines, did not fit under the first
\* and was drawn whole at the top of page 2
C12_Witness ==
    /\ pdf.at = "fields"
    /\ Len(pdf.st.draws) >= 3
    /\ LastDraw(pdf.st).kind = "field"
    /\ LastDraw(pdf.st).key = PdfKey(2)
    /\ Len(LastDraw(pdf.st).lines) = 20
    /\ LastDraw(pdf.st).page = 2
    /\ LastDraw(pdf.st).y = 20
    /\ pdf.st.draws[Len(pdf.st.draws) - 1].page = 1

\* the full-text lines drawn so far, in drawing order
TextDraws(st) == SelectSeq(st.draws, IsFullTextSlot)

IsHeadingSlot(sl) == sl.kind = "heading"

\* C13: in the PDF layout of the full text the overflow check precedes every
\* line: no line is drawn at y > 275 (a line that would be starts a new page
\* at y = 20), the Full text heading is never drawn at y > 240, and the lines
\* appear over the pages in their original order, none dropped or repeated.
C13_FullTextLineByLine ==
    LET lines == TextDraws(pdf.st)
        headings == SelectSeq(pdf.st.draws, IsHeadingSlot)
    IN  /\ \A i \in 1..Len(lines) : lines[i].y <= 275
        /\ \A i \in 1..Len(headings) : headings[i].y <= 240
        /\ \A i \in 1..(Len(lines) - 1) :
               IF lines[i].y + 6 > 275
               THEN lines[i + 1].page = lines[i].page + 1 /\ lines[i + 1].y = 20
               ELSE lines[i + 1].page = lines[i].page /\ lines[i + 1].y = lines[i].y + 6
        /\ pdf.at \in {"lines", "done"} =>
               [i \in 1..Len(lines) |-> lines[i].text] \o pdf.textLines
                   = splitTextToSize(extraction.extractedText.s)
        /\ pdf.at = "done" /\ Truthy(extraction.extractedText) =>
               /\ Len(headings) = 1
               /\ Concat([i \in 1..Len(lines) |-> lines[i].text])
                      = extraction.extractedText.s

\* C13 witness: the fields ended low on page 2, so the heading was moved to
\* the top of page 3, and the 45 lines under it ran over to page 4
C13_Witness ==
    /\ pdf.at = "done"
    /\ Len(TextDraws(pdf.st)) = 45
    /\ \E i \in 2..Len(pdf.st.draws) :
           /\ pdf.st.draws[i].kind = "heading"
           /\ pdf.st.draws[i].page = 3
           /\ pdf.st.draws[i].y = 20
           /\ pdf.st.draws[i - 1].page = 2
    /\ \E i \in 2..Len(TextDraws(pdf.st)) :
           /\ TextDraws(pdf.st)[i].page = 4
           /\ TextDraws(pdf.st)[i].y = 20
           /\ TextDraws(pdf.st)[i - 1].page = 3

\* the numbers of wrapped lines of the eligible fields, in order
C14_Sizes ==
    LET entries == DataEntries(DataOf(extraction))
    IN  [i \in 1..Len(entries) |->
            Len(splitTextToSize(LabelFor(entries[i][1]) \o <<":", " ">>
                                \o DisplayFor(entries[i][2])))]

\* the cursor under the Details heading on page 1: title 12, summary 6 per
\* line and 6, heading 8, from the top margin 20
C14_FirstY ==
    LET summary == JsString(OrElse(extraction.formattedSummary, Str(<<>>)))
    IN  20 + 12
        + (IF summary = <<>> THEN 0 ELSE 6 * Len(splitTextToSize(summary)) + 6)
        + 8

\* the height taken on page pg[i] by the fields before field i (6 per line
\* and a gap of 4 after each field)
C14_SumBefore(sizes, pg, i) ==
    LET before == {j \in 1..(i - 1) : pg[j] = pg[i]}
        RECURSIVE Sum(_)
        Sum(S) == IF S = {} THEN 0
                  ELSE LET j == CHOOSE x \in S : TRUE
                       IN  6 * sizes[j] + 4 + Sum(S \ {j})
    IN  Sum(before)

\* pg places the fields in order, and no field's block passes the limit 270
\* of its page
C14_Placement(sizes, pg) ==
    /\ \A i \in 1..(Len(sizes) - 1) : pg[i] <= pg[i + 1]
    /\ \A i \in 1..Len(sizes) :
           (IF pg[i] = 1 THEN C14_FirstY ELSE 20)
               + C14_SumBefore(sizes, pg, i) + 6 * sizes[i] <= 270

\* the page counts with which the fields can be placed
C14_PageCounts(sizes) ==
    {pg[Len(sizes)] : pg \in {f \in [1..Len(sizes) -> 1..(Len(sizes) + 1)] :
                                  C14_Placement(sizes, f)}}

\* the field loop has ended
FieldLoopEnded == pdf.at = "fields" /\ pdf.entries = <<>> /\ Len(C14_Sizes) > 0

----------------------------------------------------------------------------
(* Claims about what an export leaves behind *)

----------------------------------------------------------------------------
(* The application around the export pipeline *)

\* the pipeline's variables while the application's other parts are followed
PipelineIdle ==
    /\ extraction = [documentType |-> Undefined, extractedText |-> Undefined,
                     structuredData |-> <<>>, formattedSummary |-> Undefined]
    /\ docName = Undefined
    /\ rendered = NotRendered
    /\ pdf = PdfIdle
    /\ ExportIdle

pipelineVars == <<renderVars, platform, exportVars>>

----------------------------------------------------------------------------
(* ExportModal (src/components/ExportModal.js) under its two parents:        *)
(* HistoryScreen, which stays mounted, and PreviewScreen, which is mounted   *)
(* by navigate('Preview') and unmounted by goBack().  Each parent renders    *)
(* its own ExportModal, so each has its own exporting flag.  A press handler *)
(* runs to its first await and React commits the state it set before the     *)
(* next press is dispatched, so a press always sees the committed flag.      *)

\* the most exportDocument calls the modals have under way at a time
MaxInFlight == 2

\* the ids of the (unlocked) documents listed by the History screen
ModalDocs == {"d1", "d2"}

NoDoc == "null"

\* useState(false), useState(null) of a freshly mounted ExportModal, closed
\* and without a document
ModalClosed == [visible |-> FALSE, document |-> NoDoc, exporting |-> FALSE,
                exportingFormat |-> "null"]

ExportFormatIds == {EXPORT_FORMATS[i].id : i \in 1..Len(EXPORT_FORMATS)}

InitModal ==
    /\ PipelineIdle
    /\ platform = WebPlatform
    /\ store = [json |-> FALSE, docs |-> <<>>]
    /\ calls = <<>>
    /\ scan = [at |-> "idle"]
    /\ ui = [screen |-> "History", hist |-> ModalClosed, prev |-> ModalClosed,
             inflight |-> <<>>, alert |-> "none"]

\* the modal of parent who ("hist" or "prev") as the user sees it
ModalOf(who) == ui[who]

\* the modal is on screen: its parent is the screen in front, visible is set
\* and document is not null (if (!document) return null)
ModalShown(who) ==
    /\ ui.screen = (IF who = "hist" THEN "History" ELSE "Preview")
    /\ ModalOf(who).visible
    /\ ModalOf(who).document # NoDoc

\* no modal covers the screen in front
NoModalShown == ~ModalShown("hist") /\ ~ModalShown("prev")

\* History's export icon on an unlocked item: setExportDocument(item);
\* setExportModalVisible(true)
HistoryExportPress(item) ==
    /\ ui.screen = "History"
    /\ NoModalShown
    /\ ui' = [ui EXCEPT !.hist.document = item, !.hist.visible = TRUE]
    /\ UNCHANGED <<pipelineVars, store, calls, scan>>

\* History's item press on an unlocked item: navigate('Preview', {document:
\* item}) mounts a PreviewScreen, and with it a fresh ExportModal
HistoryItemPress(item) ==
    /\ ui.screen = "History"
    /\ NoModalShown
    /\ ui' = [ui EXCEPT !.screen = "Preview",
                        !.prev = [ModalClosed EXCEPT !.document = item]]
    /\ UNCHANGED <<pipelineVars, store, calls, scan>>

\* PreviewScreen's handleExport: setExportModalVisible(true)
PreviewExportPress ==
    /\ ui.screen = "Preview"
    /\ NoModalShown
    /\ ui' = [ui EXCEPT !.prev.visible = TRUE]
    /\ UNCHANGED <<pipelineVars, store, calls, scan>>

\* an exportDocument call whose modal was unmounted: its setState calls and
\* its onClose no longer reach a mounted component
Orphaned(call) == [call EXCEPT !.owner = "gone"]

\* PreviewScreen's handleDiscard, confirmed: navigation.goBack() unmounts the
\* screen and its ExportModal; a call of that modal stays under way
PreviewGoBack ==
    /\ ui.screen = "Preview"
    /\ NoModalShown
    /\ ui' = [ui EXCEPT !.screen = "History",
                        !.prev = ModalClosed,
                        !.inflight = [i \in 1..Len(ui.inflight) |->
                                        IF ui.inflight[i].owner = "prev"
                                        THEN Orphaned(ui.inflight[i])
                                        ELSE ui.inflight[i]]]
    /\ UNCHANGED <<pipelineVars, store, calls, scan>>

\* the parent's onClose: History clears visible and the document, Preview
\* clears visible
OnClose(who, modal) ==
    IF who = "hist"
    THEN [modal EXCEPT !.visible = FALSE, !.document = NoDoc]
    ELSE [modal EXCEPT !.visible = FALSE]

\* a press on the overlay or on the close button, which are never disabled
ModalClosePress(who) ==
    /\ ModalShown(who)
    /\ ui' = [ui EXCEPT ![who] = OnClose(who, ModalOf(who))]
    /\ UNCHANGED <<pipelineVars, store, calls, scan>>

\* what keeps a press on a format option from reaching handleExport:
\* disabled={exporting}
FormatOptionDisabled(who) == ModalOf(who).exporting

\* handleExport up to its await: a press on a format option that is not
\* disabled sets exporting and exportingFormat and calls exportDocument
HandleExport(who, id) ==
    /\ ModalShown(who)
    /\ ~FormatOptionDisabled(who)
    /\ Len(ui.inflight) < MaxInFlight
    /\ ui' = [ui EXCEPT ![who].exporting = TRUE,
                        ![who].exportingFormat = id,
                        !.inflight = Append(@, [owner |-> who,
                                                document |-> ModalOf(who).document,
                                                formatId |-> id])]
    /\ UNCHANGED <<pipelineVars, store, calls, scan>>

RemoveAt(q, i) == SubSeq(q, 1, i - 1) \o SubSeq(q, i + 1, Len(q))

\* handleExport after its await: exportDocument resolved (the alert, then
\* onClose()) or rejected (the alert), and the finally block clears exporting
\* and exportingFormat; all of it is lost on an unmounted modal but the alert
ExportSettles(i, ok) ==
    /\ i \in 1..Len(ui.inflight)
    /\ LET call == ui.inflight[i]
           who == call.owner
           closed == IF who = "gone" THEN ui
                     ELSE IF ok THEN [ui EXCEPT ![who] = OnClose(who, ModalOf(who))]
                     ELSE ui
           cleared == IF who = "gone" THEN closed
                      ELSE [closed EXCEPT ![who].exporting = FALSE,
                                          ![who].exportingFormat = "null"]
       IN  ui' = [cleared EXCEPT !.inflight = RemoveAt(ui.inflight, i),
                                 !.alert = IF ok THEN "Export complete"
                                           ELSE "Export failed"]
    /\ UNCHANGED <<pipelineVars, store, calls, scan>>

NextModal ==
    \/ \E item \in ModalDocs : HistoryExportPress(item)
    \/ \E item \in ModalDocs : HistoryItemPress(item)
    \/ PreviewExportPress
    \/ PreviewGoBack
    \/ \E who \in {"hist", "prev"} : ModalClosePress(who)
    \/ \E who \in {"hist", "prev"}, id \in ExportFormatIds : HandleExport(who, id)
    \/ \E i \in 1..MaxInFlight, ok \in BOOLEAN : ExportSettles(i, ok)

SpecModal == InitModal /\ [][NextModal]_vars

\* C21: at most one export is in flight: while an exportDocument call started
\* from an ExportModal has not settled, no sequence of presses (closing and
\* reopening the modal included) starts a second exportDocument call.
C21_OneExportInFlight == Len(ui.inflight) <= 1

\* the same for the presses that stay on one mounted modal: the calls under
\* way that were started from one parent's modal
C21_InFlightOf(who) == SelectSeq(ui.inflight, LAMBDA c : c.owner = who)

C21_OnePerModal == \A who \in {"hist", "prev"} : Len(C21_InFlightOf(who)) <= 1

----------------------------------------------------------------------------
(* The document store (src/services/documentService.js): the list of        *)
(* document records kept as one AsyncStorage item, and the service calls as *)
(* step machines whose steps are the calls' awaits.  A call keeps the list  *)
(* it read in its locals and later writes a whole list back.                *)

\* the most service calls one run starts
MaxCalls == 2

\* String.prototype.trim on the PINs of the model: blanks at both ends go
RECURSIVE TrimStart(_)
TrimStart(s) == IF s # <<>> /\ Head(s) = " " THEN TrimStart(Tail(s)) ELSE s

Trim(s) == Reverse(TrimStart(Reverse(TrimStart(s))))

\* hashPin's null
NoHash == <<>>

\* the SHA-256 hex digest of a string: a one-to-one image of the string
Sha256(s) == <<"#">> \o s

\* hashPin(pin): null for a PIN that is blank after trimming and when the
\* digest throws, the digest of the trimmed PIN otherwise
hashPin(pin, digestOk) ==
    LET normalized == Trim(pin)
    IN  IF normalized = <<>> THEN NoHash
        ELSE IF digestOk THEN Sha256(normalized)
        ELSE NoHash

\* verifyDocumentPin(doc, pin)
verifyDocumentPin(doc, pin, digestOk) ==
    IF doc.locked # "true" \/ doc.pinHash = NoHash THEN FALSE
    ELSE LET hash == hashPin(pin, digestOk)
         IN  hash # NoHash /\ hash = doc.pinHash

\* an extraction held by a stored document, as an opaque value
Ext(n) == [t |-> "object", v |-> n]

\* the record saveDocument builds (lines 119-130) with the fields later calls
\* add to it; "absent" is a property the record does not have
NewDocument(timestamp, imageUri, source) ==
    [id |-> timestamp, uri |-> imageUri, originalUri |-> imageUri, size |-> 0,
     source |-> source, extraction |-> Undefined, wasEdited |-> "absent",
     locked |-> "absent", pinHash |-> NoHash]

\* AsyncStorage.getItem(STORAGE_KEY) === null
NoItem == [json |-> FALSE, docs |-> <<>>]

\* JSON.stringify(docs) stored under STORAGE_KEY
Item(docs) == [json |-> TRUE, docs |-> docs]

IdsOf(docs) == {docs[i].id : i \in 1..Len(docs)}

\* docs.find((d) => d.id === id), where there is one
FindDoc(docs, id) == docs[CHOOSE i \in 1..Len(docs) :
                            /\ docs[i].id = id
                            /\ \A j \in 1..(i - 1) : docs[j].id # id]

\* FileSystem.documentDirectory is null on web
HasDocumentsDir == platform.os # "web"

TargetUri == "documents/document.jpg"

\* what a service call returns or throws
Pending == [k |-> "pending"]
ReturnsTrue == [k |-> "true"]
ReturnsFalse == [k |-> "false"]
ReturnsDoc(doc) == [k |-> "document", doc |-> doc]
Throws(message) == [k |-> "error", message |-> message]

\* the arguments of a call, by operation
SaveArgs(imageUri, source) ==
    [op |-> "saveDocument", imageUri |-> imageUri, source |-> source]
SaveWithArgs(imageUri, ex, source) ==
    [op |-> "saveDocumentWithExtraction", imageUri |-> imageUri,
     extraction |-> ex, source |-> source]
UpdateArgs(id, ex) ==
    [op |-> "updateDocumentExtraction", id |-> id, extraction |-> ex]
LockArgs(ids, pin) == [op |-> "lockDocuments", ids |-> ids, pin |-> pin]
UnlockArgs(id, pin) == [op |-> "unlockDocument", id |-> id, pin |-> pin]
UnlockAllArgs(ids, pin) == [op |-> "unlockDocuments", ids |-> ids, pin |-> pin]
DeleteArgs(id) == [op |-> "deleteDocument", id |-> id]

IsSave(a) == a.op \in {"saveDocument", "saveDocumentWithExtraction"}

\* the first await of a call
FirstAwait(a) ==
    CASE IsSave(a) -> IF HasDocumentsDir THEN "copy" ELSE "getItem"
      [] a.op = "lockDocuments" -> "hashPin"
      [] a.op \in {"unlockDocument", "unlockDocuments"} -> "getAllDocuments"
      [] OTHER -> "getItem"

\* the timestamps of the documents stored and of those being saved
Timestamps ==
    IdsOf(store.docs)
    \cup {calls.q[i].document.id : i \in {j \in 1..Len(calls.q) : IsSave(calls.q[j].a)}}

\* Date.now() of a save: later than every one of them
Now == 1 + (CHOOSE t \in Timestamps \cup {0} : \A u \in Timestamps : u <= t)

\* a call and its locals at its first await
NewCall(a) ==
    [a |-> a,
     at |-> FirstAwait(a),
     phase |-> 1,
     document |-> IF IsSave(a) THEN NewDocument(Now, a.imageUri, a.source)
                  ELSE Undefined,
     copy |-> "not tried",
     docs |-> <<>>,
     toUnlock |-> <<>>,
     pinHash |-> NoHash,
     wrote |-> FALSE,
     ret |-> Pending]

\* a call made while fewer than limit calls are under way, one of at most
\* budget calls
BeginCall(a, limit, budget) ==
    /\ calls.n < budget
    /\ Len(calls.q) < limit
    /\ calls' = [n |-> calls.n + 1,
                 base |-> IF calls.q = <<>> THEN store.docs ELSE calls.base,
                 q |-> Append(calls.q, NewCall(a))]

\* the call made by a caller the model does not follow
Begin(a, limit, budget) ==
    /\ BeginCall(a, limit, budget)
    /\ UNCHANGED <<pipelineVars, store, ui, scan>>

Done(c, ret) == [c EXCEPT !.at = "done", !.ret = ret]

\* saveDocument lines 97-116: ensureDocumentsDir, copyAsync and getInfoAsync
\* settle; uri and size keep their fallbacks unless the copy is there
CopySettles(i, outcome) ==
    /\ i \in 1..Len(calls.q)
    /\ calls.q[i].at = "copy"
    /\ LET c == calls.q[i]
           copied == [c.document EXCEPT !.uri = TargetUri,
                                        !.size = IF outcome = "copied" THEN 7 ELSE 0]
       IN  calls' = [calls EXCEPT !.q[i] =
                        [c EXCEPT !.at = "getItem",
                                  !.copy = outcome,
                                  !.document = IF outcome \in {"copied", "copied, no size"}
                                               THEN copied ELSE c.document]]
    /\ UNCHANGED <<pipelineVars, store, ui, scan>>

\* lockDocuments lines 191-192
HashSettles(i, digestOk) ==
    /\ i \in 1..Len(calls.q)
    /\ calls.q[i].at = "hashPin"
    /\ LET c == calls.q[i]
           pinHash == hashPin(c.a.pin, digestOk)
       IN  calls' = [calls EXCEPT !.q[i] =
                        IF pinHash = NoHash \/ c.a.ids = {}
                        THEN Done(c, ReturnsFalse)
                        ELSE [c EXCEPT !.at = "getItem", !.pinHash = pinHash]]
    /\ UNCHANGED <<pipelineVars, store, ui, scan>>

\* getAllDocuments: the stored list, or [] when there is no item or the read
\* throws
getAllDocuments(ok) == IF ok /\ store.json THEN store.docs ELSE <<>>

\* unlockDocument lines 212-214 and unlockDocuments lines 232-233, up to the
\* first verifyDocumentPin
GetAllSettles(i, ok) ==
    /\ i \in 1..Len(calls.q)
    /\ calls.q[i].at = "getAllDocuments"
    /\ LET c == calls.q[i]
           allDocs == getAllDocuments(ok)
           toUnlock ==
               IF c.a.op = "unlockDocument"
               THEN IF c.a.id \in IdsOf(allDocs) THEN <<FindDoc(allDocs, c.a.id)>>
                    ELSE <<>>
               ELSE SelectSeq(allDocs, LAMBDA d : d.id \in c.a.ids /\ d.locked = "true")
       IN  calls' = [calls EXCEPT !.q[i] =
                        IF c.a.op = "unlockDocument"
                        THEN IF toUnlock = <<>> \/ toUnlock[1].locked # "true"
                             THEN Done(c, ReturnsFalse)
                             ELSE [c EXCEPT !.at = "verify", !.toUnlock = toUnlock]
                        ELSE IF toUnlock = <<>>
                             THEN [c EXCEPT !.at = "getItem"]
                             ELSE [c EXCEPT !.at = "verify", !.toUnlock = toUnlock]]
    /\ UNCHANGED <<pipelineVars, store, ui, scan>>

\* the PIN check an unlock makes on a document it read
PinChecked(doc, pin, digestOk) == verifyDocumentPin(doc, pin, digestOk)

\* one await verifyDocumentPin(doc, pin) of an unlock: false ends the call,
\* true goes on to the next document or to the read of the item
VerifySettles(i, digestOk) ==
    /\ i \in 1..Len(calls.q)
    /\ calls.q[i].at = "verify"
    /\ LET c == calls.q[i]
           rest == Tail(c.toUnlock)
       IN  calls' = [calls EXCEPT !.q[i] =
                        IF ~PinChecked(Head(c.toUnlock), c.a.pin, digestOk)
                        THEN Done(c, ReturnsFalse)
                        ELSE [c EXCEPT !.toUnlock = rest,
                                       !.at = IF rest = <<>> THEN "getItem"
                                              ELSE "verify"]]
    /\ UNCHANGED <<pipelineVars, store, ui, scan>>

\* what a call does when its read or its write of the item throws:
\* saveDocumentWithExtraction's second half returns the saved doc, every
\* other call rethrows
OnStorageError(c) ==
    IF c.phase = 2 THEN Done(c, ReturnsDoc(c.document))
    ELSE Done(c, Throws("storage"))

\* what a call does with the item it read
OnItem(c, item) ==
    LET read == [c EXCEPT !.at = "setItem", !.docs = item.docs]
    IN  CASE IsSave(c.a) -> read
          [] c.a.op = "updateDocumentExtraction" ->
                IF item.json THEN read ELSE Done(c, Throws("Document not found"))
          [] c.a.op = "deleteDocument" ->
                IF item.json /\ c.a.id \in IdsOf(item.docs) THEN read
                ELSE Done(c, ReturnsFalse)
          [] OTHER -> IF item.json THEN read ELSE Done(c, ReturnsFalse)

\* await AsyncStorage.getItem(STORAGE_KEY) settles
GetItemSettles(i, ok) ==
    /\ i \in 1..Len(calls.q)
    /\ calls.q[i].at = "getItem"
    /\ calls' = [calls EXCEPT !.q[i] = IF ok THEN OnItem(calls.q[i], store)
                                       ELSE OnStorageError(calls.q[i])]
    /\ UNCHANGED <<pipelineVars, store, ui, scan>>

\* the list saveDocument writes, and the one that drops a record whose file
\* was not copied
SaveDroppingUncopied(c) == IF c.document.uri = TargetUri THEN <<c.document>> \o c.docs
                           ELSE c.docs

SavePrepended(c) == <<c.document>> \o c.docs

\* updateDocumentExtraction's replacement of a record
UpdatedExtraction(d, ex) == [d EXCEPT !.extraction = ex, !.wasEdited = "true"]

\* the list a call writes back, from the list it read
Updated(c) ==
    CASE IsSave(c.a) /\ c.phase = 1 -> SavePrepended(c)
      [] IsSave(c.a) /\ c.phase = 2 ->
            [i \in DOMAIN c.docs |-> LET d == c.docs[i] IN IF d.id = c.document.id
                                       THEN [d EXCEPT !.extraction = c.a.extraction]
                                       ELSE d]
      [] c.a.op = "updateDocumentExtraction" ->
            [i \in DOMAIN c.docs |-> LET d == c.docs[i] IN IF d.id = c.a.id
                                       THEN UpdatedExtraction(d, c.a.extraction)
                                       ELSE d]
      [] c.a.op = "lockDocuments" ->
            [i \in DOMAIN c.docs |-> LET d == c.docs[i] IN IF d.id \in c.a.ids
                                       THEN [d EXCEPT !.locked = "true",
                                                      !.pinHash = c.pinHash]
                                       ELSE d]
      [] c.a.op = "unlockDocument" ->
            [i \in DOMAIN c.docs |-> LET d == c.docs[i] IN IF d.id = c.a.id
                                       THEN [d EXCEPT !.locked = "false",
                                                      !.pinHash = NoHash]
                                       ELSE d]
      [] c.a.op = "unlockDocuments" ->
            [i \in DOMAIN c.docs |-> LET d == c.docs[i] IN IF d.id \in c.a.ids /\ d.locked = "true"
                                       THEN [d EXCEPT !.locked = "false",
                                                      !.pinHash = NoHash]
                                       ELSE d]
      [] c.a.op = "deleteDocument" ->
            SelectSeq(c.docs, LAMBDA d : d.id # c.a.id)

\* what a call does once its write is done
OnWritten(c) ==
    LET w == [c EXCEPT !.wrote = TRUE]
    IN  CASE c.a.op = "saveDocument" -> Done(w, ReturnsDoc(c.document))
          [] c.a.op = "saveDocumentWithExtraction" /\ c.phase = 1 ->
                IF c.a.extraction = Null THEN Done(w, ReturnsDoc(c.document))
                ELSE [w EXCEPT !.phase = 2, !.at = "getItem"]
          [] c.a.op = "saveDocumentWithExtraction" /\ c.phase = 2 ->
                Done(w, ReturnsDoc([c.document EXCEPT !.extraction = c.a.extraction]))
          [] OTHER -> Done(w, ReturnsTrue)

\* await AsyncStorage.setItem(STORAGE_KEY, JSON.stringify(updated)) settles
SetItemSettles(i, ok) ==
    /\ i \in 1..Len(calls.q)
    /\ calls.q[i].at = "setItem"
    /\ IF ok
       THEN /\ store' = Item(Updated(calls.q[i]))
            /\ calls' = [calls EXCEPT !.q[i] = OnWritten(calls.q[i])]
       ELSE /\ store' = store
            /\ calls' = [calls EXCEPT !.q[i] = OnStorageError(calls.q[i])]
    /\ UNCHANGED <<pipelineVars, ui, scan>>

\* the caller takes what the call returned or threw
TakeCall(i) ==
    /\ i \in 1..Len(calls.q)
    /\ calls.q[i].at = "done"
    /\ calls' = [calls EXCEPT !.q = RemoveAt(calls.q, i)]

\* the same for a caller the model does not follow
Returned(i) ==
    /\ TakeCall(i)
    /\ UNCHANGED <<pipelineVars, store, ui, scan>>

\* the PINs entered: blank, two different ones, and the first with a blank
\* in front
Pins == {<<>>, <<"1">>, <<"2">>, <<" ", "1">>}

\* a document as a sequence of earlier calls leaves it
StoredDoc(id, ex, edited, pin) ==
    [NewDocument(id, "img", "camera") EXCEPT
        !.extraction = ex,
        !.wasEdited = edited,
        !.locked = IF pin = <<>> THEN "absent" ELSE "true",
        !.pinHash = hashPin(pin, TRUE)]

\* the stores a run starts from: no item, an empty list, and lists of two
\* documents of which none, one or both are locked
InitialStores ==
    {NoItem, Item(<<>>)}
    \cup {Item(<<StoredDoc(2, Ext(1), "absent", p2), StoredDoc(1, Undefined, "absent", p1)>>) :
            p1 \in {<<>>, <<"1">>}, p2 \in {<<>>, <<"1">>, <<"2">>}}

\* the ids calls are made with: the two stored ones and one that is not stored
CallIds == {1, 2, 9}

\* the calls made
NewCalls ==
    {SaveArgs("img", "camera")}
    \cup {SaveWithArgs("img", ex, "gallery") : ex \in {Null, Ext(2)}}
    \cup {UpdateArgs(id, Ext(3)) : id \in CallIds}
    \cup {LockArgs(ids, pin) : ids \in {{}, {1}, {1, 2}}, pin \in Pins}
    \cup {UnlockArgs(id, pin) : id \in {1, 9}, pin \in Pins \ {<<>>}}
    \cup {UnlockAllArgs(ids, pin) : ids \in {{2}, {1, 2}}, pin \in Pins \ {<<>>}}
    \cup {DeleteArgs(id) : id \in {1, 9}}

InitStore ==
    /\ PipelineIdle
    /\ platform \in {WebPlatform, [os |-> "ios", window |-> FALSE, jsPDF |-> FALSE]}
    /\ store \in InitialStores
    /\ calls = [n |-> 0, base |-> <<>>, q |-> <<>>]
    /\ ui = [at |-> "none"]
    /\ scan = [at |-> "idle"]

\* how the file part of a save can go
CopyOutcomes == {"dir not ready", "copy throws", "no file", "copied", "copied, no size"}

\* the awaits of the calls under way settle, and the caller takes the result
StoreSteps(n) ==
    \/ \E i \in 1..n, outcome \in CopyOutcomes : CopySettles(i, outcome)
    \/ \E i \in 1..n, digestOk \in BOOLEAN : HashSettles(i, digestOk)
    \/ \E i \in 1..n, ok \in BOOLEAN : GetAllSettles(i, ok)
    \/ \E i \in 1..n, digestOk \in BOOLEAN : VerifySettles(i, digestOk)
    \/ \E i \in 1..n, ok \in BOOLEAN : GetItemSettles(i, ok)
    \/ \E i \in 1..n, ok \in BOOLEAN : SetItemSettles(i, ok)
    \/ \E i \in 1..n : Returned(i)

\* the service called by one caller that awaits each call
NextStore ==
    \/ \E a \in NewCalls : Begin(a, 1, MaxCalls)
    \/ StoreSteps(1)

SpecStore == InitStore /\ [][NextStore]_vars

----------------------------------------------------------------------------
(* Claims on the document store *)

\* the calls of operation op that have returned or thrown
DoneCalls(op) == {i \in 1..Len(calls.q) : calls.q[i].a.op = op /\ calls.q[i].at = "done"}

\* C22: saveDocument always persists the new record: when its read and its
\* write of the stored list succeed, the record is returned and is the first
\* of the stored list, followed by the records stored before the call in
\* their order, also when the documents directory could not be prepared or
\* the copy threw; the record then has the original image URI as uri and
\* size 0.  The call throws only when the read or the write failed.
C22_SaveAlwaysPersists ==
    \A i \in DoneCalls("saveDocument") :
        LET c == calls.q[i]
        IN  IF c.wrote
            THEN /\ c.ret.k = "document"
                 /\ store.json
                 /\ store.docs = <<c.ret.doc>> \o calls.base
                 /\ c.ret.doc.originalUri = c.a.imageUri
                 /\ c.copy \notin {"copied", "copied, no size"}
                        => c.ret.doc.uri = c.a.imageUri /\ c.ret.doc.size = 0
            ELSE c.ret.k = "error"

\* a save whose copy threw has returned, after two documents were stored
C22_Witness ==
    \E i \in DoneCalls("saveDocument") :
        /\ calls.q[i].copy = "copy throws"
        /\ calls.q[i].wrote
        /\ Len(calls.base) = 2
        /\ Len(store.docs) = 3

----------------------------------------------------------------------------
(* PreviewScreen and EditDocumentScreen (src/screens/PreviewScreen.js,      *)
(* src/unnamed/part_001) saving through the document service.  A screen     *)
(* opened with a documentId shows the stored document (its useFocusEffect   *)
(* load has completed when the user acts).                                  *)

\* item.extraction || null
OrNull(ex) == IF IsNullish(ex) THEN Null ELSE ex

\* the extraction EditDocument is given for a document without one (lines
\* 430-435 of HistoryScreen.js)
DefaultExtraction == Ext(0)

\* the stored documents the screens are opened on: with and without an
\* extraction, edited before or not
EditStores ==
    {Item(<<StoredDoc(2, Ext(1), e2, <<>>), StoredDoc(1, ex1, "absent", <<>>)>>) :
        e2 \in {"absent", "true"}, ex1 \in {Undefined, Ext(2)}}

\* the screens: the History screen, or the Preview of a new scan (no
\* documentId) over the screen that made it
InitEdit ==
    /\ PipelineIdle
    /\ platform \in {WebPlatform, [os |-> "ios", window |-> FALSE, jsPDF |-> FALSE]}
    /\ store \in EditStores
    /\ calls = [n |-> 0, base |-> <<>>, q |-> <<>>]
    /\ scan = [at |-> "idle"]
    /\ ui \in {[stack |-> <<"History">>, documentId |-> 0, extraction |-> Null,
                editedExtraction |-> Null, saving |-> FALSE, alert |-> "none"],
               [stack |-> <<"Scan", "Preview">>, documentId |-> 0,
                extraction |-> Ext(5), editedExtraction |-> Null,
                saving |-> FALSE, alert |-> "none"]}

Top == ui.stack[Len(ui.stack)]

\* navigation.goBack()
Pop(stack) == SubSeq(stack, 1, Len(stack) - 1)

\* the document a screen loaded by getDocumentById(documentId)
CurrentDoc == FindDoc(store.docs, ui.documentId)

\* PreviewScreen line 229: currentDoc?.extraction ?? paramExtraction ?? null
PreviewExtraction ==
    IF ui.documentId # 0 /\ ui.documentId \in IdsOf(store.docs)
    THEN IF IsNullish(CurrentDoc.extraction) THEN ui.extraction
         ELSE CurrentDoc.extraction
    ELSE ui.extraction

\* an unlocked History item pressed: navigate('Preview', { extraction:
\* item.extraction || null, documentId: item.id })
HistoryOpenPreview(id) ==
    /\ Top = "History"
    /\ id \in IdsOf(store.docs)
    /\ ui' = [ui EXCEPT !.stack = Append(@, "Preview"),
                        !.documentId = id,
                        !.extraction = OrNull(FindDoc(store.docs, id).extraction)]
    /\ UNCHANGED <<pipelineVars, store, calls, scan>>

\* EditDocumentScreen's load (lines 115-135): a deep copy of doc.extraction
\* || paramExtraction
LoadedForEdit(id, paramExtraction) ==
    IF id # 0 /\ id \in IdsOf(store.docs)
    THEN IF Truthy(FindDoc(store.docs, id).extraction)
         THEN FindDoc(store.docs, id).extraction
         ELSE paramExtraction
    ELSE paramExtraction

\* the edit icon of an unlocked History item
HistoryOpenEdit(id) ==
    /\ Top = "History"
    /\ id \in IdsOf(store.docs)
    /\ ui' = [ui EXCEPT !.stack = Append(@, "EditDocument"),
                        !.documentId = id,
                        !.editedExtraction = LoadedForEdit(id, DefaultExtraction)]
    /\ UNCHANGED <<pipelineVars, store, calls, scan>>

\* PreviewScreen's handleEdit
PreviewHandleEdit ==
    /\ Top = "Preview"
    /\ ~ui.saving
    /\ ui' = [ui EXCEPT !.stack = Append(@, "EditDocument"),
                        !.editedExtraction =
                            LoadedForEdit(ui.documentId, PreviewExtraction)]
    /\ UNCHANGED <<pipelineVars, store, calls, scan>>

\* updateStructuredData / updateArrayField: the user changes a field
EditField(ex) ==
    /\ Top = "EditDocument"
    /\ ~ui.saving
    /\ ui.editedExtraction # Null
    /\ ex # ui.editedExtraction
    /\ ui' = [ui EXCEPT !.editedExtraction = ex]
    /\ UNCHANGED <<pipelineVars, store, calls, scan>>

\* the call handleSave makes: updateDocumentExtraction for a stored document,
\* saveDocumentWithExtraction for a new scan
SaveCallOf(ex) ==
    IF ui.documentId # 0 THEN UpdateArgs(ui.documentId, ex)
    ELSE SaveWithArgs("img", ex, "gallery")

\* PreviewScreen's handleSave up to its await
PreviewHandleSave ==
    /\ Top = "Preview"
    /\ ~ui.saving
    /\ BeginCall(SaveCallOf(PreviewExtraction), 1, MaxCalls)
    /\ ui' = [ui EXCEPT !.saving = TRUE]
    /\ UNCHANGED <<pipelineVars, store, scan>>

\* EditDocumentScreen's handleSave up to its await
EditHandleSave ==
    /\ Top = "EditDocument"
    /\ ~ui.saving
    /\ ui.editedExtraction # Null
    /\ BeginCall(SaveCallOf(ui.editedExtraction), 1, MaxCalls)
    /\ ui' = [ui EXCEPT !.saving = TRUE]
    /\ UNCHANGED <<pipelineVars, store, scan>>

\* handleSave after its await, on either screen: 'Saved' and goBack(), or
\* the error alert; finally setSaving(false)
SaveSettled ==
    /\ ui.saving
    /\ TakeCall(1)
    /\ ui' = IF calls.q[1].ret.k = "error"
             THEN [ui EXCEPT !.saving = FALSE, !.alert = "Error"]
             ELSE [ui EXCEPT !.saving = FALSE, !.alert = "Saved",
                             !.stack = Pop(@),
                             !.editedExtraction = Null]
    /\ UNCHANGED <<pipelineVars, store, scan>>

\* EditDocumentScreen's handleCancel, PreviewScreen's handleDiscard confirmed
GoBack ==
    /\ Top \in {"Preview", "EditDocument"}
    /\ ~ui.saving
    /\ ui' = [ui EXCEPT !.stack = Pop(@), !.editedExtraction = Null]
    /\ UNCHANGED <<pipelineVars, store, calls, scan>>

NextEdit ==
    \/ \E id \in CallIds : HistoryOpenPreview(id)
    \/ \E id \in CallIds : HistoryOpenEdit(id)
    \/ PreviewHandleEdit
    \/ \E ex \in {Ext(1), Ext(4)} : EditField(ex)
    \/ PreviewHandleSave
    \/ EditHandleSave
    \/ SaveSettled
    \/ GoBack
    \/ \E outcome \in CopyOutcomes : CopySettles(1, outcome)
    \/ \E ok \in BOOLEAN : GetItemSettles(1, ok)
    \/ \E ok \in BOOLEAN : SetItemSettles(1, ok)

SpecEdit == InitEdit /\ [][NextEdit]_vars

\* C23: a stored document gets wasEdited = true only when its extraction was
\* actually edited: a save from Preview without editing, a save from the
\* edit screen with nothing changed and a cancel of the edit screen leave
\* wasEdited, and the document, as they were.  So no step changes a stored
\* document whose extraction it leaves as it was.
C23_UneditedSaveKeepsDocument ==
    [][\A i \in 1..Len(store.docs), j \in 1..Len(store'.docs) :
          (/\ store.docs[i].id = store'.docs[j].id
           /\ store.docs[i].extraction = store'.docs[j].extraction)
          => store'.docs[j] = store.docs[i]]_vars

\* the calls that are unlockDocument or unlockDocuments
IsUnlock(c) == c.a.op \in {"unlockDocument", "unlockDocuments"}

\* a step in which the call k ends
Ends(k) ==
    /\ k \in 1..Len(calls.q)
    /\ k \in 1..Len(calls'.q)
    /\ calls.q[k].at # "done"
    /\ calls'.q[k].at = "done"

\* the step clears the lock of the stored document i: the document is still
\* stored and is no longer locked, or no longer has a pinHash
Unlocked(i, j) ==
    /\ store.docs[i].id = store'.docs[j].id
    /\ store.docs[i].locked = "true"
    /\ store'.docs[j].locked # "true" \/ store'.docs[j].pinHash = NoHash

\* C24: unlocking requires the current PIN and is all-or-nothing: a step
\* clears locked / pinHash of a stored document only as the write of an
\* unlockDocument or unlockDocuments call whose PIN hashes to that document's
\* stored pinHash; and an unlockDocuments call whose PIN fails for one of the
\* selected locked documents returns false and has left the stored list as it
\* was.
C24_UnlockStep ==
    /\ \A i \in 1..Len(store.docs), j \in 1..Len(store'.docs) :
          Unlocked(i, j) =>
              \E k \in 1..Len(calls.q) :
                  /\ IsUnlock(calls.q[k])
                  /\ calls.q[k].at = "setItem"
                  /\ hashPin(calls.q[k].a.pin, TRUE) = store.docs[i].pinHash
    /\ \A k \in 1..Len(calls.q) :
          (/\ Ends(k)
           /\ calls.q[k].a.op = "unlockDocuments"
           /\ \E i \in 1..Len(calls.base) :
                 /\ calls.base[i].id \in calls.q[k].a.ids
                 /\ calls.base[i].locked = "true"
                 /\ calls.base[i].pinHash # hashPin(calls.q[k].a.pin, TRUE))
          => /\ calls'.q[k].ret \in {ReturnsFalse, Throws("storage")}
             /\ ~calls'.q[k].wrote
             /\ store'.docs = calls.base

C24_UnlockNeedsPin == [][C24_UnlockStep]_vars

----------------------------------------------------------------------------
(* Two callers of the document service at a time: a screen that awaits its  *)
(* call while another screen makes one (a save from Preview while History   *)
(* locks, say).  Every await of either call is a point where the other can  *)
(* run.                                                                     *)

\* the callers that can have a call under way together
Racers == 2

NextRace ==
    \/ \E a \in NewCalls : Begin(a, Racers, Racers)
    \/ StoreSteps(Racers)

\* the stores two racing calls start from: no item, and a list of an unlocked
\* and a locked document
RaceStores ==
    {NoItem,
     Item(<<StoredDoc(2, Ext(1), "absent", <<>>),
            StoredDoc(1, Undefined, "absent", <<"1">>)>>)}

InitRace ==
    /\ PipelineIdle
    /\ platform \in {WebPlatform, [os |-> "ios", window |-> FALSE, jsPDF |-> FALSE]}
    /\ store \in RaceStores
    /\ calls = [n |-> 0, base |-> <<>>, q |-> <<>>]
    /\ ui = [at |-> "none"]
    /\ scan = [at |-> "idle"]

SpecRace == InitRace /\ [][NextRace]_vars

\* what a call that returned successfully did to a stored list, had it run
\* alone on that list: a save put the record it returned in front, the other
\* calls mapped or filtered the list
Effect(c, docs) ==
    IF IsSave(c.a) THEN <<c.ret.doc>> \o docs
    ELSE Updated([c EXCEPT !.docs = docs])

Succeeded(c) == c.at = "done" /\ c.ret.k \in {"true", "document"} /\ c.wrote

\* C25: no completed mutation of the document store is lost under
\* interleaving: once two calls made together have both returned
\* successfully, the stored list is what the two mutations give when applied
\* to the list stored before them, in one order or the other.
C25_NoLostUpdate ==
    (/\ Len(calls.q) = 2
     /\ Succeeded(calls.q[1])
     /\ Succeeded(calls.q[2]))
    => store.docs \in {Effect(calls.q[2], Effect(calls.q[1], calls.base)),
                       Effect(calls.q[1], Effect(calls.q[2], calls.base))}

\* the step changes or clears the pinHash of the stored, locked document i
PinHashChanged(i, j) ==
    /\ store.docs[i].id = store'.docs[j].id
    /\ store.docs[i].locked = "true"
    /\ store'.docs[j].pinHash # store.docs[i].pinHash

\* C26: once a document is locked its pinHash is changed or cleared only by
\* an unlock call with the matching PIN: no other documentService call, a
\* lockDocuments call with the id of a locked document and another PIN
\* included, changes it; and every stored document with locked = true has a
\* pinHash.
C26_PinHashStep ==
    /\ \A i \in 1..Len(store.docs), j \in 1..Len(store'.docs) :
          PinHashChanged(i, j) =>
              \E k \in 1..Len(calls.q) :
                  /\ IsUnlock(calls.q[k])
                  /\ calls.q[k].at = "setItem"
                  /\ hashPin(calls.q[k].a.pin, TRUE) = store.docs[i].pinHash
    /\ \A j \in 1..Len(store'.docs) :
          store'.docs[j].locked = "true" => store'.docs[j].pinHash # NoHash

C26_PinHashKept == [][C26_PinHashStep]_vars

\* the second half of C26 alone: a locked document has a pinHash
C26_LockedHasPinHash ==
    \A j \in 1..Len(store.docs) :
        store.docs[j].locked = "true" => store.docs[j].pinHash # NoHash

\* C30: updateDocumentExtraction returns true only if a stored document with
\* the given id existed, and that document then carries the given extraction;
\* otherwise the call fails with 'Document not found' (or with the storage
\* error) and leaves the stored list as it was; documents with other ids are
\* never changed.
C30_UpdateFindsDocument ==
    \A k \in DoneCalls("updateDocumentExtraction") :
        LET c == calls.q[k]
        IN  /\ c.ret.k \in {"true", "error"}
            /\ c.ret.k = "true" =>
                  /\ c.a.id \in IdsOf(calls.base)
                  /\ \A j \in 1..Len(store.docs) :
                        store.docs[j].id = c.a.id
                        => store.docs[j].extraction = c.a.extraction
            /\ c.a.id \notin IdsOf(calls.base) =>
                  /\ c.ret \in {Throws("Document not found"), Throws("storage")}
                  /\ store.docs = calls.base
            /\ Len(store.docs) = Len(calls.base)
            /\ \A j \in 1..Len(store.docs) :
                  calls.base[j].id # c.a.id => store.docs[j] = calls.base[j]

----------------------------------------------------------------------------
(* HistoryScreen and its PinModal (src/screens/HistoryScreen.js,            *)
(* src/components/PinModal.js).  historyItems is the list the screen loaded *)
(* last; loadHistory reads the store again, asynchronously.  handlePinSubmit*)
(* keeps the pendingAction of the render it was called in across its await. *)

\* the most handlePinSubmit calls waiting for verifyDocumentPin at a time
MaxSubmits == 1

PinA == <<"1", "1", "1", "1">>
PinB == <<"2", "2", "2", "2">>

\* what the user types into the PIN field
TypedPins == {<<" ">>, <<"1">>, PinA, PinB}

NoAction == [type |-> "null"]

\* the stored documents the screen starts with: document 1 locked with PinA
\* or not, document 2 locked with PinB
HistoryStores ==
    {Item(<<StoredDoc(2, Ext(1), "absent", PinB), StoredDoc(1, Undefined, "absent", p1)>>) :
        p1 \in {<<>>, PinA}}

PinModalClosed == [visible |-> FALSE, mode |-> "enter", error |-> ""]

\* the History screen after its first loadHistory
InitHistory ==
    /\ PipelineIdle
    /\ platform = WebPlatform
    /\ store \in HistoryStores
    /\ calls = [n |-> 0, base |-> <<>>, q |-> <<>>]
    /\ scan = [at |-> "idle"]
    /\ ui = [front |-> "History", opened |-> 0,
             historyItems |-> store.docs, loading |-> FALSE,
             selectionMode |-> FALSE, selectedIds |-> {},
             pinModal |-> PinModalClosed, pendingAction |-> NoAction,
             submits |-> <<>>, serving |-> NoAction,
             exportModalVisible |-> FALSE, exportDocument |-> 0]

ItemIds == IdsOf(ui.historyItems)

ItemOf(id) == FindDoc(ui.historyItems, id)

\* the History screen takes presses: it is in front and neither modal covers
\* it
HistoryTakesPresses ==
    /\ ui.front = "History"
    /\ ~ui.pinModal.visible
    /\ ~ui.exportModalVisible

\* loadHistory's getAllDocuments settles: setHistoryItems(docs)
LoadHistorySettles(ok) ==
    /\ ui.loading
    /\ ui' = [ui EXCEPT !.historyItems = getAllDocuments(ok), !.loading = FALSE]
    /\ UNCHANGED <<pipelineVars, store, calls, scan>>

\* the PIN modal as openLockedDoc, startLock, startUnlock and the lock icon
\* open it; PinModal's effect on visible clears the PIN field, so the PIN
\* submitted is one typed since
PinModalOpened(mode) == [visible |-> TRUE, mode |-> mode, error |-> ""]

\* openLockedDoc(item, action)
openLockedDoc(u, item, action) ==
    [u EXCEPT !.pendingAction = [type |-> action, document |-> item],
              !.pinModal = PinModalOpened("enter")]

\* navigate('Preview' / 'EditDocument', { documentId: doc.id, ... })
Navigate(u, screen, doc) == [u EXCEPT !.front = screen, !.opened = doc.id]

\* the gate of the three item handlers: item.locked
ItemLocked(item) == item.locked = "true"

\* a press on a history item (lines 314-333)
ItemPress(id) ==
    /\ HistoryTakesPresses
    /\ id \in ItemIds
    /\ ui' = IF ui.selectionMode
             THEN [ui EXCEPT !.selectedIds = IF id \in @ THEN @ \ {id}
                                             ELSE @ \cup {id}]
             ELSE IF ItemLocked(ItemOf(id))
             THEN openLockedDoc(ui, ItemOf(id), "open")
             ELSE Navigate(ui, "Preview", ItemOf(id))
    /\ UNCHANGED <<pipelineVars, store, calls, scan>>

\* a press on an item's export icon (lines 404-417)
ExportIconPress(id) ==
    /\ HistoryTakesPresses
    /\ ~ui.selectionMode
    /\ id \in ItemIds
    /\ ui' = IF ItemLocked(ItemOf(id))
             THEN openLockedDoc(ui, ItemOf(id), "export")
             ELSE [ui EXCEPT !.exportDocument = id, !.exportModalVisible = TRUE]
    /\ UNCHANGED <<pipelineVars, store, calls, scan>>

\* a press on an item's edit icon (lines 418-443)
EditIconPress(id) ==
    /\ HistoryTakesPresses
    /\ ~ui.selectionMode
    /\ id \in ItemIds
    /\ ui' = IF ItemLocked(ItemOf(id))
             THEN openLockedDoc(ui, ItemOf(id), "edit")
             ELSE Navigate(ui, "EditDocument", ItemOf(id))
    /\ UNCHANGED <<pipelineVars, store, calls, scan>>

\* a press on the lock icon of an item shown as unlocked (lines 389-402)
LockIconPress(id) ==
    /\ HistoryTakesPresses
    /\ ~ui.selectionMode
    /\ id \in ItemIds
    /\ ~ItemLocked(ItemOf(id))
    /\ ui' = [ui EXCEPT !.pendingAction = [type |-> "lock", documentIds |-> {id}],
                        !.pinModal = PinModalOpened("set")]
    /\ UNCHANGED <<pipelineVars, store, calls, scan>>

\* Select and Cancel in the header (lines 217-231)
SelectPress ==
    /\ HistoryTakesPresses
    /\ ui' = [ui EXCEPT !.selectionMode = ~@, !.selectedIds = {}]
    /\ UNCHANGED <<pipelineVars, store, calls, scan>>

\* the selected ids whose item is locked (startUnlock) or not (startLock)
SelectedItems(locked) ==
    {id \in ui.selectedIds \cap ItemIds : ItemLocked(ItemOf(id)) = locked}

\* startLock and startUnlock, whose buttons show when such items are selected
StartLockOrUnlock(type) ==
    /\ HistoryTakesPresses
    /\ ui.selectionMode
    /\ SelectedItems(type = "unlock") # {}
    /\ ui' = [ui EXCEPT !.pendingAction = [type |-> type,
                                           documentIds |-> SelectedItems(type = "unlock")],
                        !.pinModal = PinModalOpened(IF type = "lock" THEN "set"
                                                    ELSE "enter")]
    /\ UNCHANGED <<pipelineVars, store, calls, scan>>

\* PinModal's onClose (lines 467-471)
PinModalClose ==
    /\ ui.front = "History"
    /\ ui.pinModal.visible
    /\ ui' = [ui EXCEPT !.pinModal = PinModalClosed, !.pendingAction = NoAction]
    /\ UNCHANGED <<pipelineVars, store, calls, scan>>

\* PinModal's own checks in handleSubmit: "" when the PIN goes to onSubmit
SubmitError(text, mode) ==
    IF Trim(text) = <<>> THEN "Please enter a PIN"
    ELSE IF mode = "set" /\ Len(Trim(text)) < 4 THEN "PIN must be at least 4 characters"
    ELSE ""

\* the lock and unlock calls the screen makes in a run
HistoryCalls == 1

\* PinModal's handleSubmit on the text typed into the PIN field and, when it
\* calls onSubmit, handlePinSubmit up to its await: lockDocuments,
\* unlockDocuments or verifyDocumentPin is called for the pendingAction of
\* this render
PinSubmit(text) ==
    /\ ui.front = "History"
    /\ ui.pinModal.visible
    /\ LET error == SubmitError(text, ui.pinModal.mode)
           pin == Trim(text)
           action == ui.pendingAction
       IN  IF error # ""
           THEN /\ ui' = [ui EXCEPT !.pinModal.error = error]
                /\ UNCHANGED calls
           ELSE IF action.type \in {"lock", "unlock"}
           THEN /\ ui.serving = NoAction
                /\ BeginCall(IF action.type = "lock"
                             THEN LockArgs(action.documentIds, pin)
                             ELSE UnlockAllArgs(action.documentIds, pin),
                             1, HistoryCalls)
                /\ ui' = [ui EXCEPT !.pinModal.error = "", !.serving = action]
           ELSE /\ Len(ui.submits) < MaxSubmits
                /\ ui' = [ui EXCEPT !.pinModal.error = "",
                                    !.submits = Append(@, [action |-> action,
                                                           pin |-> pin])]
                /\ UNCHANGED calls
    /\ UNCHANGED <<pipelineVars, store, scan>>

\* handlePinSubmit after await lockDocuments / unlockDocuments (lines
\* 105-128): on true the modal closes, the selection ends and loadHistory()
\* is called; otherwise the error shows
ServiceSettled ==
    /\ ui.serving # NoAction
    /\ TakeCall(1)
    /\ ui' = IF calls.q[1].ret.k = "true"
             THEN [ui EXCEPT !.serving = NoAction,
                             !.pinModal = PinModalClosed,
                             !.pendingAction = NoAction,
                             !.selectionMode = FALSE,
                             !.selectedIds = {},
                             !.loading = TRUE]
             ELSE [ui EXCEPT !.serving = NoAction,
                             !.pinModal.error =
                                 IF calls.q[1].ret.k = "error" THEN "Something went wrong"
                                 ELSE IF ui.serving.type = "lock"
                                 THEN "Failed to lock documents"
                                 ELSE "Incorrect PIN"]
    /\ UNCHANGED <<pipelineVars, store, scan>>

\* handlePinSubmit after await verifyDocumentPin(doc, pin) (lines 130-159)
VerifySubmitSettles(k, digestOk) ==
    /\ k \in 1..Len(ui.submits)
    /\ LET action == ui.submits[k].action
           doc == action.document
           rest == [ui EXCEPT !.submits = RemoveAt(@, k)]
           closed == [rest EXCEPT !.pinModal.visible = FALSE,
                                  !.pendingAction = NoAction]
       IN  ui' = IF ~verifyDocumentPin(doc, ui.submits[k].pin, digestOk)
                 THEN [rest EXCEPT !.pinModal.error = "Incorrect PIN"]
                 ELSE CASE action.type = "open" -> Navigate(closed, "Preview", doc)
                        [] action.type = "edit" -> Navigate(closed, "EditDocument", doc)
                        [] OTHER -> [closed EXCEPT !.exportDocument = doc.id,
                                                   !.exportModalVisible = TRUE]
    /\ UNCHANGED <<pipelineVars, store, calls, scan>>

\* ExportModal's onClose (lines 454-457)
ExportModalClose ==
    /\ ui.front = "History"
    /\ ui.exportModalVisible
    /\ ui' = [ui EXCEPT !.exportModalVisible = FALSE, !.exportDocument = 0]
    /\ UNCHANGED <<pipelineVars, store, calls, scan>>

\* goBack() from Preview or EditDocument: History is focused again and
\* useFocusEffect calls loadHistory()
BackToHistory ==
    /\ ui.front # "History"
    /\ ui' = [ui EXCEPT !.front = "History", !.opened = 0, !.loading = TRUE]
    /\ UNCHANGED <<pipelineVars, store, calls, scan>>

NextHistory ==
    \/ \E ok \in BOOLEAN : LoadHistorySettles(ok)
    \/ \E id \in {1, 2} : ItemPress(id)
    \/ \E id \in {1, 2} : ExportIconPress(id)
    \/ \E id \in {1, 2} : EditIconPress(id)
    \/ \E id \in {1, 2} : LockIconPress(id)
    \/ SelectPress
    \/ \E type \in {"lock", "unlock"} : StartLockOrUnlock(type)
    \/ PinModalClose
    \/ \E text \in TypedPins : PinSubmit(text)
    \/ ServiceSettled
    \/ \E k \in 1..MaxSubmits, digestOk \in BOOLEAN : VerifySubmitSettles(k, digestOk)
    \/ ExportModalClose
    \/ BackToHistory
    \/ \E digestOk \in BOOLEAN : HashSettles(1, digestOk)
    \/ \E ok \in BOOLEAN : GetAllSettles(1, ok)
    \/ \E digestOk \in BOOLEAN : VerifySettles(1, digestOk)
    \/ \E ok \in BOOLEAN : GetItemSettles(1, ok)
    \/ \E ok \in BOOLEAN : SetItemSettles(1, ok)

SpecHistory == InitHistory /\ [][NextHistory]_vars

\* the step opens document d: Preview or EditDocument comes to the front on
\* it, or the export modal is shown for it
Opens(d) ==
    \/ /\ ui'.front \in {"Preview", "EditDocument"}
       /\ ui'.opened = d
       /\ ui'.front # ui.front \/ ui'.opened # ui.opened
    \/ /\ ui'.exportModalVisible
       /\ ui'.exportDocument = d
       /\ ~ui.exportModalVisible \/ ui.exportDocument # d

\* the step is the end of a handlePinSubmit call that was waiting for
\* verifyDocumentPin on document d, and the PIN it was given is the
\* document's
VerifiedFor(d) ==
    \E k \in 1..Len(ui.submits) :
        /\ ui.submits[k].action.document.id = d
        /\ verifyDocumentPin(ui.submits[k].action.document, ui.submits[k].pin, TRUE)
        /\ ui'.submits = RemoveAt(ui.submits, k)

\* the step is the end of a handlePinSubmit call whose PIN is not the
\* document's
Refused ==
    \E k \in 1..Len(ui.submits) :
        /\ ~verifyDocumentPin(ui.submits[k].action.document, ui.submits[k].pin, TRUE)
        /\ ui'.submits = RemoveAt(ui.submits, k)

\* the step closes the PIN modal and is the end of no handlePinSubmit call
ClosedByUser ==
    /\ ui.pinModal.visible
    /\ ~ui'.pinModal.visible
    /\ ui'.submits = ui.submits
    /\ ui'.serving = ui.serving

NothingOpened ==
    /\ ui'.front = ui.front
    /\ ui'.opened = ui.opened
    /\ ui'.exportModalVisible = ui.exportModalVisible
    /\ ui'.exportDocument = ui.exportDocument

\* C27: from the History screen a locked document is opened in Preview, in
\* the edit screen or in the export modal only by the step in which
\* verifyDocumentPin returned true for that document and the PIN entered for
\* the request; an incorrect PIN and closing the PIN modal open nothing, and
\* closing clears the pending action.
C27_Step ==
    /\ \A d \in IdsOf(store.docs) :
          (Opens(d) /\ FindDoc(store.docs, d).locked = "true") => VerifiedFor(d)
    /\ Refused => NothingOpened
    /\ ClosedByUser => NothingOpened /\ ui'.pendingAction = NoAction

C27_ShownStep ==
    /\ \A d \in ItemIds :
          (Opens(d) /\ ItemOf(d).locked = "true") => VerifiedFor(d)
    /\ Refused => NothingOpened
    /\ ClosedByUser => NothingOpened /\ ui'.pendingAction = NoAction

C27_ShownLockedOpensOnlyWithPin == [][C27_ShownStep]_vars

----------------------------------------------------------------------------
(* the printable area of a PDF page *)

IsDetailsSlot(sl) == sl.kind = "details"

\* C28: in the PDF layout every line of every structured field is drawn
\* inside the printable area of its page: a field of n wrapped lines drawn
\* with the cursor at y has y + 6*n <= 270, also a field whose block is
\* taller than a whole page and a field that follows a long summary, and the
\* Details heading is never drawn below y = 270.
C28_FieldsInsidePrintableArea ==
    \A i \in 1..Len(pdf.st.draws) :
        LET d == pdf.st.draws[i]
        IN  /\ IsFieldSlot(d) => d.y + 6 * Len(d.lines) <= 270
            /\ IsDetailsSlot(d) => d.y <= 270

\* the part of C28 that is about the Details heading
C28_DetailsHeadingInside ==
    \A i \in 1..Len(pdf.st.draws) :
        IsDetailsSlot(pdf.st.draws[i]) => pdf.st.draws[i].y <= 270

\* the part of C28 that is about fields of at most 41 lines
C28_FittingFieldsInside ==
    \A i \in 1..Len(pdf.st.draws) :
        LET d == pdf.st.draws[i]
        IN  (IsFieldSlot(d) /\ Len(d.lines) <= 41) => d.y + 6 * Len(d.lines) <= 270

----------------------------------------------------------------------------
(* scanDocumentWithAI: the OpenAI request and the free OCR fallback *)

\* an error message is a sequence of words, and message.includes(s) looks
\* for the words of s next to each other
Includes(msg, words) ==
    \E i \in 1..(Len(msg) - Len(words) + 1) :
        SubSeq(msg, i, i + Len(words) - 1) = words

\* getApiKey's error
KeyNotSet ==
    <<"OpenAI", "API", "key", "not", "set", ".", "Add",
      "EXPO_PUBLIC_OPENAI_API_KEY", "to", "your", ".env", "file", "and",
      "restart", "Expo", ".">>

\* imageUriToBase64's last line
CouldNotRead ==
    <<"Could", "not", "read", "image", "as", "base64", "for", "this", "platform">>

\* what fetch rejects with when the network fails
FailedToFetch == <<"Failed", "to", "fetch">>

\* `OpenAI API error (${response.status})`
ApiError(status) == <<"OpenAI", "API", "error", "(", status, ")">>

QuotaNotice ==
    <<"OpenAI", "API", "Quota", "Exceeded", "Your", "API", "key", "has", "run",
      "out", "of", "credits", ".", "Trying", "free", "OCR", "fallback", "...">>

InvalidKeyNotice(m) ==
    <<"Invalid", "API", "Key", "Please", "check", "your", ".env", "file", "and",
      "ensure", "EXPO_PUBLIC_OPENAI_API_KEY", "is", "set", "correctly", ".",
      "Error", "details", ":">> \o m

RateLimitNotice(m) ==
    <<"Rate", "Limit", "Exceeded", "Too", "many", "requests", ".", "Please",
      "wait", "a", "moment", "and", "try", "again", ".",
      "Error", "details", ":">> \o m

\* the sentence added to the message off the web
NativeHint ==
    <<"On", "web", ",", "the", "app", "can", "use", "free", "OCR", "when",
      "OpenAI", "quota", "is", "exceeded", ".">>

\* the error thrown when the fallback of the response check failed
FallbackFailed(m) ==
    <<"OpenAI", "quota", "exceeded", "and", "fallback", "OCR", "failed", ".",
      "Add", "credits", "at", "https://platform.openai.com/account/", "billing",
      "or", "try", "again", ".", "Fallback", "error", ":">> \o m

EmptyResponse == <<"Empty", "response", "from", "OpenAI">>

\* what JSON.parse and response.json() throw
NotJsonError == <<"Unexpected", "token">>

\* scanWithTesseract's error off the web
OnlyOnWeb ==
    <<"Tesseract", "fallback", "is", "only", "available", "on", "web", ".">>

\* what the import of tesseract.js and Tesseract.recognize reject with
ImportFailed == <<"Failed", "to", "load", "tesseract.js">>
RecognizeFailed == <<"Error", "attempting", "to", "read", "image">>

\* error.message of the bodies OpenAI answers with
InsufficientQuota ==
    <<"You", "exceeded", "your", "current", "quota", ",", "please", "check",
      "your", "plan", "and", "billing", "details", ".">>
IncorrectKey == <<"Incorrect", "API", "key", "provided", ".">>
RateLimited == <<"rate_limit", "reached", "for", "requests">>
ServerError == <<"The", "server", "had", "an", "error">>

\* the error bodies: not JSON, JSON without error.message, JSON with one
ErrBodies ==
    {[json |-> FALSE, message |-> <<>>], [json |-> TRUE, message |-> <<>>]}
    \cup {[json |-> TRUE, message |-> m] :
             m \in {InsufficientQuota, IncorrectKey, RateLimited, ServerError}}

NoBody == [json |-> FALSE, message |-> <<>>]

\* the statuses of a response that is not ok
ErrStatuses == {"401", "429", "500"}

\* message and isQuotaError after the error body was read
ApiFailure(status, body) ==
    LET m == body.message
        parsed == body.json /\ m # <<>>
        isQuotaError ==
            /\ parsed
            /\ \/ Includes(m, <<"quota">>)
               \/ Includes(m, <<"billing">>)
               \/ Includes(m, <<"exceeded">>)
    IN  [isQuotaError |-> isQuotaError,
         message |->
            IF ~parsed THEN ApiError(status)
            ELSE IF isQuotaError THEN QuotaNotice
            ELSE IF \/ Includes(m, <<"invalid_api_key">>)
                    \/ Includes(m, <<"Incorrect", "API", "key">>)
                 THEN InvalidKeyNotice(m)
            ELSE IF Includes(m, <<"rate_limit">>) THEN RateLimitNotice(m)
            ELSE m]

\* the catch block's test of err.message
isQuotaOrBilling(msg) ==
    \/ Includes(msg, <<"quota">>)
    \/ Includes(msg, <<"billing">>)
    \/ Includes(msg, <<"exceeded">>)
    \/ Includes(msg, <<"401">>)
    \/ Includes(msg, <<"429">>)

\* the image URIs a scan is called with
ScanImageUris == {"blob:", "data:image", "file://"}

\* scanDocumentWithAI(imageUri) has been called
ScanCalled(uri) ==
    [at |-> "called", imageUri |-> uri, status |-> "none", body |-> NoBody,
     failure |-> "none", quota |-> FALSE, err |-> <<>>,
     by |-> "none", fallbacks |-> 0, imageSource |-> "none",
     fallbackFailed |-> FALSE, ret |-> "pending"]

ScanThrows(s, err) == [s EXCEPT !.at = "done", !.ret = "throws", !.err = err]

RECURSIVE Catch(_, _)
RECURSIVE scanWithTesseract(_)
RECURSIVE TesseractThrew(_, _)

\* catch (err) of scanDocumentWithAI, up to its await
Catch(s, err) ==
    IF platform.os = "web" /\ isQuotaOrBilling(err)
    THEN scanWithTesseract([s EXCEPT !.err = err, !.by = "catch"])
    ELSE ScanThrows(s, err)

\* scanWithTesseract(imageUri), up to its first await
scanWithTesseract(s) ==
    LET c == [s EXCEPT !.fallbacks = @ + 1, !.imageSource = "imageUri"]
    IN  IF platform.os # "web" THEN TesseractThrew(c, OnlyOnWeb)
        ELSE IF s.imageUri = "blob:"
             THEN [c EXCEPT !.at = "tesseract: imageUriToBase64"]
        ELSE [c EXCEPT !.at = "tesseract: import"]

\* what the two callers of scanWithTesseract do when it throws
TesseractThrew(s, tesseractErr) ==
    LET f == [s EXCEPT !.fallbackFailed = TRUE]
    IN  IF s.by = "response check"
        THEN Catch(f, FallbackFailed(tesseractErr))
        ELSE ScanThrows(f, s.err)

InitScan ==
    /\ PipelineIdle
    /\ platform \in {WebPlatform, [os |-> "ios", window |-> FALSE, jsPDF |-> FALSE]}
    /\ store = [json |-> FALSE, docs |-> <<>>]
    /\ calls = <<>>
    /\ ui = [at |-> "none"]
    /\ scan \in {ScanCalled(uri) : uri \in ScanImageUris}

\* getApiKey(), then the call of imageUriToBase64
ScanBegin(keySet) ==
    /\ scan.at = "called"
    /\ scan' = IF keySet
               THEN [scan EXCEPT !.at = "imageUriToBase64"]
               ELSE Catch([scan EXCEPT !.failure = "key"], KeyNotSet)
    /\ UNCHANGED <<pipelineVars, store, calls, ui>>

\* how imageUriToBase64 can end for a URI on the platform
Base64Outcomes(uri) ==
    IF uri = "data:image" THEN {"base64"}
    ELSE IF platform.os = "web" /\ uri = "blob:" THEN {"base64", "fetch throws"}
    ELSE {"base64", "could not read"}

\* await imageUriToBase64(imageUri), then the request is sent
Base64Settles(o) ==
    /\ scan.at = "imageUriToBase64"
    /\ o \in Base64Outcomes(scan.imageUri)
    /\ scan' = CASE o = "base64" -> [scan EXCEPT !.at = "fetch"]
                 [] o = "fetch throws" ->
                        Catch([scan EXCEPT !.failure = "image"], FailedToFetch)
                 [] OTHER ->
                        Catch([scan EXCEPT !.failure = "image"], CouldNotRead)
    /\ UNCHANGED <<pipelineVars, store, calls, ui>>

\* await fetch(OPENAI_API_URL, ...)
OpenAiFetchSettles(o) ==
    /\ scan.at = "fetch"
    /\ scan' = CASE o = "rejects" ->
                        Catch([scan EXCEPT !.failure = "network"], FailedToFetch)
                 [] o = "200" -> [scan EXCEPT !.at = "response.json", !.status = o]
                 [] OTHER -> [scan EXCEPT !.at = "response.text", !.status = o]
    /\ UNCHANGED <<pipelineVars, store, calls, ui>>

\* await response.text() of a response that is not ok, and the rest of the
\* response check
ErrBodySettles(body) ==
    /\ scan.at = "response.text"
    /\ LET f == ApiFailure(scan.status, body)
           s == [scan EXCEPT !.failure = "api", !.body = body,
                             !.quota = f.isQuotaError]
       IN  scan' =
              IF platform.os = "web" /\ f.isQuotaError
              THEN scanWithTesseract([s EXCEPT !.by = "response check"])
              ELSE Catch(s, f.message
                            \o (IF platform.os # "web" THEN NativeHint ELSE <<>>))
    /\ UNCHANGED <<pipelineVars, store, calls, ui>>

\* await response.json() of a response that is ok, and the parsing of the
\* content
JsonSettles(content) ==
    /\ scan.at = "response.json"
    /\ scan' = CASE content = "rejects" ->
                        Catch([scan EXCEPT !.failure = "content"], NotJsonError)
                 [] content = "empty" ->
                        Catch([scan EXCEPT !.failure = "content"], EmptyResponse)
                 [] content = "not json" ->
                        Catch([scan EXCEPT !.failure = "content"], NotJsonError)
                 [] OTHER -> [scan EXCEPT !.at = "done", !.ret = "openai"]
    /\ UNCHANGED <<pipelineVars, store, calls, ui>>

\* scanWithTesseract: await imageUriToBase64(imageUri) inside its own try
TesseractConvertSettles(ok) ==
    /\ scan.at = "tesseract: imageUriToBase64"
    /\ scan' = [scan EXCEPT !.at = "tesseract: import",
                            !.imageSource = IF ok THEN "data url" ELSE "imageUri"]
    /\ UNCHANGED <<pipelineVars, store, calls, ui>>

\* scanWithTesseract: await import('tesseract.js')
TesseractImportSettles(ok) ==
    /\ scan.at = "tesseract: import"
    /\ scan' = IF ok THEN [scan EXCEPT !.at = "tesseract: recognize"]
               ELSE TesseractThrew(scan, ImportFailed)
    /\ UNCHANGED <<pipelineVars, store, calls, ui>>

\* scanWithTesseract: await Tesseract.recognize(...), and the return of the
\* extraction to the caller of scanDocumentWithAI
TesseractRecognizeSettles(o) ==
    /\ scan.at = "tesseract: recognize"
    /\ scan' = IF o = "rejects" THEN TesseractThrew(scan, RecognizeFailed)
               ELSE [scan EXCEPT !.at = "done", !.ret = "tesseract: " \o o]
    /\ UNCHANGED <<pipelineVars, store, calls, ui>>

NextScan ==
    \/ \E keySet \in BOOLEAN : ScanBegin(keySet)
    \/ \E o \in {"base64", "fetch throws", "could not read"} : Base64Settles(o)
    \/ \E o \in {"rejects", "200"} \cup ErrStatuses : OpenAiFetchSettles(o)
    \/ \E body \in ErrBodies : ErrBodySettles(body)
    \/ \E content \in {"rejects", "empty", "not json", "json"} : JsonSettles(content)
    \/ \E ok \in BOOLEAN : TesseractConvertSettles(ok)
    \/ \E ok \in BOOLEAN : TesseractImportSettles(ok)
    \/ \E o \in {"text", "no text", "rejects"} : TesseractRecognizeSettles(o)

SpecScan == InitScan /\ [][NextScan]_vars

\* the OpenAI request failed of quota or billing, or with status 401 or 429
QuotaOr401Or429 ==
    /\ scan.failure = "api"
    /\ scan.quota \/ scan.status \in {"401", "429"}

\* the fallback is attempted only on the web after such a failure
C29_OnlyOnWebAfterQuota ==
    scan.fallbacks > 0 => platform.os = "web" /\ QuotaOr401Or429

\* off the web the fallback is never attempted and the error of the failed
\* request is thrown
C29_NativeThrows ==
    platform.os # "web" =>
        /\ scan.fallbacks = 0
        /\ scan.failure # "none" => scan.at = "done" /\ scan.ret = "throws"
        /\ scan.failure = "api" =>
              scan.err = ApiFailure(scan.status, scan.body).message \o NativeHint

\* C29: within one scanDocumentWithAI call the Tesseract fallback is
\* attempted at most once, and only on the web after a quota or billing (or
\* 401/429) failure of the OpenAI request; off the web it is never attempted
\* and the OpenAI error is thrown; and when the one attempt fails the call
\* ends with an error, the fallback not being run again.
C29_FallbackAtMostOnce ==
    /\ scan.fallbacks <= 1
    /\ C29_OnlyOnWebAfterQuota
    /\ C29_NativeThrows
    /\ scan.fallbackFailed => scan.at = "done" /\ scan.ret = "throws"

====
